---- MODULE Spec2Model ----
(***************************************************************************)
(* Port resolution core of vcpkg-tool: the lock file, the remote git       *)
(* registry, and the port file providers.                                   *)
(*                                                                         *)
(* Every operation of the program is a pure operator over a "world"        *)
(* record (the mutable objects the operation can touch) that returns the   *)
(* new world and the operation's result; an action applies one public      *)
(* operation to the current state.                                         *)
(***************************************************************************)
EXTENDS Naturals, Integers, Sequences, FiniteSets, TLC

\* ------------------------------------------------------------------------
\* Bounds of the model
\* ------------------------------------------------------------------------

\* operations stop being issued once a lock key has seen this many fetches
MaxFetches == 2

\* the longest list of overlay directories
MaxOverlays == 2

\* the longest list of pattern-routed registries
MaxRegistries == 2

\* the longest port name asked of package_pattern_match
MaxNameLen == 2

\* the longest path of an entry of a filesystem version database
MaxPathLen == 5

\* the most objects in the "versions" array of a versions file
MaxEntries == 3

\* the most processes that check the same baseline out at once
MaxProcesses == 2

\* ------------------------------------------------------------------------
\* Value encodings: ExpectedL<T>, Optional<T>, CacheSingle<T>
\* ------------------------------------------------------------------------

Ok(v) == [ok |-> TRUE, val |-> v]
Err(e) == [ok |-> FALSE, err |-> e]
Some(v) == [has |-> TRUE, v |-> v]
None == [has |-> FALSE]
Unit == "unit"
Unset == [set |-> FALSE]
Cached(r) == [set |-> TRUE, r |-> r]

\* Cache<K, V>: a map that only grows; get_lazy runs the loader on a missing key
EmptyCache == <<>>
CacheHas(cache, key) == key \in DOMAIN cache
CachePut(cache, key, value) == [k \in DOMAIN cache \cup {key} |-> IF k = key THEN value ELSE cache[k]]

\* result of an operation: the world after it and the value it returns
Ret(w, res) == [w |-> w, res |-> res]

\* a local variable: name the value v as the argument of Body
Bind(v, Body(_)) == Body(v)

\* ------------------------------------------------------------------------
\* The universe: names are sequences of characters
\* ------------------------------------------------------------------------

NameA == <<"a">>
NameAB == <<"a", "b">>
NameB == <<"b">>
Ports == {NameA, NameAB}
Versions == {"1.0", "2.0"}

HexLower == {"0", "1", "2", "3", "4", "5", "6", "7", "8", "9", "a", "b", "c", "d", "e", "f"}
ShaOf(ch) == [i \in 1..40 |-> ch]
BaselineSha == ShaOf("a")

\* commits a reference can point at; "c1" is what the lock file on disk pins
Commits == {"c1", "c2"}
Unreachable == "unreachable"

Repo1 == "https://example.com/r1"
KeyMain == <<Repo1, "main">>
KeyDev == <<Repo1, "dev">>
Keys == {KeyMain, KeyDev}

\* the configured git registries: (repo, reference, baseline identifier)
GitRegs == {"g1", "g2"}
GitConfig ==
    [g \in GitRegs |->
        IF g = "g1"
        THEN [repo |-> Repo1, reference |-> "main", baseline |-> BaselineSha]
        ELSE [repo |-> Repo1, reference |-> "main", baseline |-> <<"m", "a", "i", "n">>]]

VARIABLES
    lockdata,      \* LockFile::lockdata, a multimap kept as a sequence in insertion order
    modified,      \* LockFile::modified
    git,           \* the caches of every GitRegistry
    gitObjects,    \* shas whose objects the local registries git repository holds
    metrics,       \* telemetry defines bumped so far
    crashed,       \* a Checks::unreachable / check_exit site was hit
    remote,        \* what each (repo, reference) resolves to on the remote
    treeStatus,    \* per commit: can its versions tree be found and extracted
    badTrees,      \* git trees of ports that cannot be extracted
    baselineSource,\* how the baseline commit's objects can be obtained
    fetchAttempts, \* per lock key: git_fetch_from_remote_registry calls made
    fetchSuccesses,\* per lock key: those that returned a commit
    refreshAttempts,\* per lock key: fetches made by ensure_up_to_date
    loadedLock,    \* the lock data as loaded from disk at startup
    overlays,      \* the overlay directories on disk, in configured order
    m_overlay_cache, \* OverlayProviderImpl::m_overlay_cache
    m_manifest_scf_and_location, \* ManifestProviderImpl::m_manifest_scf_and_location
    fsVersions,    \* the port names under each filesystem registry's versions directory
    registry_set,  \* RegistrySet: registries_ in configured order and default_registry_
    m_baseline_cache, \* BaselineProviderImpl::m_baseline_cache
    m_entry_cache,   \* VersionedPortfileProviderImpl::m_entry_cache
    m_control_cache, \* VersionedPortfileProviderImpl::m_control_cache
    m_scfs,        \* BuiltinFilesRegistry::m_scfs
    m_versions,    \* BuiltinGitRegistry::m_versions
    m_entries,     \* FilesystemRegistry::m_entries
    disk,          \* the builtin ports and versions directories and the filesystem registry
    get_port_results, \* history: what the first get_port call for each key returned
    checkout,      \* the baselines directory and the processes checking a baseline out
    last           \* the last operation: name, arguments, result, external calls

vars == <<lockdata, modified, git, gitObjects, metrics, crashed, remote, treeStatus,
          badTrees, baselineSource, fetchAttempts, fetchSuccesses, refreshAttempts,
          loadedLock, overlays, m_overlay_cache, registry_set, m_baseline_cache,
          m_manifest_scf_and_location, fsVersions,
          m_entry_cache, m_control_cache, m_scfs, m_versions, m_entries, disk,
          get_port_results, checkout, last>>

\* ------------------------------------------------------------------------
\* The on-disk version database of the remote registry, per commit
\* ------------------------------------------------------------------------

\* the entries of <builtin-versions>/a-/a.json
BuiltinVersionsFile == <<[version |-> "1.0", git_tree |-> "t1"]>>

\* the commit "builtin" stands for the version database of the builtin tree
VersionsFileAt(commit, port) ==
    IF commit = "builtin"
    THEN (IF port = NameA /\ disk.versions = "listed"
          THEN disk.versions_file
          ELSE IF port = NameA /\ disk.versions = "ok"
          THEN [kind |-> "ok", entries |-> BuiltinVersionsFile]
          ELSE IF port = NameA /\ disk.versions = "malformed"
          THEN [kind |-> "malformed"]
          ELSE [kind |-> "missing"])
    ELSE IF commit = "c1"
    THEN (IF port = NameA
          THEN [kind |-> "ok", entries |-> <<[version |-> "1.0", git_tree |-> "t1"]>>]
          ELSE [kind |-> "missing"])
    ELSE (IF port = NameA
          THEN [kind |-> "ok", entries |-> <<[version |-> "1.0", git_tree |-> "t1"],
                                             [version |-> "2.0", git_tree |-> "t2"]>>]
          ELSE IF port = NameAB
          THEN [kind |-> "ok", entries |-> <<[version |-> "1.0", git_tree |-> "t3"]>>]
          ELSE [kind |-> "missing"])

BaselineFileAt(sha) == [p \in {NameA} |-> "1.0"]

\* ------------------------------------------------------------------------
\* The builtin ports tree, its version database, and the filesystem registry
\* ------------------------------------------------------------------------

\* what the directory <builtin-ports>/a can hold
BuiltinPortEntries ==
    {[k |-> "none"], [k |-> "error"]}
    \cup {[k |-> "port", name |-> n, version |-> v] : n \in Ports, v \in Versions}

\* the file of port a in a version database: absent, unreadable, or listing version 1.0
\* (for the filesystem registry also "dots": listing it with a path that has dots);
\* "listed" stands for the file whose contents are given in full as versions_file
VersionsFileStates == {"missing", "malformed", "ok"}

\* a directory to list: absent, unreadable, or readable
DirectoryStates == {"absent", "error", "ok"}

Disks ==
    [ports : BuiltinPortEntries, ports_dir : {"error", "ok"},
     versions : VersionsFileStates, versions_dir : DirectoryStates,
     fs_versions : VersionsFileStates \cup {"dots"}, versions_file : {[kind |-> "missing"]}]

EmptyDisk ==
    [ports |-> [k |-> "none"], ports_dir |-> "ok", versions |-> "missing",
     versions_dir |-> "absent", fs_versions |-> "missing",
     versions_file |-> [kind |-> "missing"]]

\* ------------------------------------------------------------------------
\* The baselines directory, shared by the processes that check a baseline out
\* ------------------------------------------------------------------------

\* the vcpkg processes that run get_baseline_version on the same root
Procs == 1..MaxProcesses

\* the files that can be alive at once: baseline.json, baseline.json.tmp, and one more
\* that a process still holds open after its name was taken over
Inodes == 1..(MaxProcesses + 1)

\* where a process stands in git_checkout_baseline
CheckoutSteps ==
    {"exists", "git_show", "create_directories", "write_contents", "writing", "rename",
     "returned"}

\* no baseline was checked out yet: <baselines>/<sha> holds neither baseline.json (dest)
\* nor baseline.json.tmp (tmp); 0 stands for no file and for no open handle
CheckoutStart ==
    [pc |-> [p \in Procs |-> "exists"],
     seen |-> [p \in Procs |-> FALSE],
     handle |-> [p \in Procs |-> 0],
     tmp |-> 0,
     dest |-> 0,
     contents |-> [i \in Inodes |-> "free"]]

\* ------------------------------------------------------------------------
\* The world an operation works on
\* ------------------------------------------------------------------------

World ==
    [lockdata |-> lockdata, modified |-> modified, git |-> git, gitObjects |-> gitObjects,
     metrics |-> metrics, crashed |-> crashed, m_overlay_cache |-> m_overlay_cache,
     m_baseline_cache |-> m_baseline_cache, m_entry_cache |-> m_entry_cache,
     m_control_cache |-> m_control_cache, m_scfs |-> m_scfs, m_versions |-> m_versions,
     m_entries |-> m_entries, calls |-> <<>>]

Call(w, c) == [w EXCEPT !.calls = Append(@, c)]

\* ------------------------------------------------------------------------
\* LockFile
\* ------------------------------------------------------------------------

\* paths.git_fetch_from_remote_registry(repo, reference)
\* (the caller is recorded with the call)
git_fetch_from_remote_registry(w, repo, reference, caller) ==
    Bind(remote[<<repo, reference>>], LAMBDA head :
    Bind(Call(w, <<"git_fetch_from_remote_registry", repo, reference, head # Unreachable,
                   caller>>), LAMBDA w1 :
        IF head = Unreachable
        THEN Ret(w1, Err(<<"GitFetchFailed", repo, reference>>))
        ELSE Ret([w1 EXCEPT !.gitObjects =
                            @ \cup (IF baselineSource = "with_ref" THEN {BaselineSha} ELSE {})],
                 Ok(head))))

\* std::find_if over lockdata.equal_range(repo): index of the first entry, 0 if none
LockFind(ld, repo, reference) ==
    Bind({i \in 1..Len(ld) : ld[i].repo = repo /\ ld[i].reference = reference}, LAMBDA hits :
        IF hits = {} THEN 0 ELSE CHOOSE i \in hits : \A j \in hits : i <= j)

\* mutants of get_or_fetch
get_or_fetch_inserts_stale(w, repo, reference) ==
    Bind(LockFind(w.lockdata, repo, reference), LAMBDA it :
        IF it = 0
        THEN Bind(git_fetch_from_remote_registry(w, repo, reference, "get_or_fetch"), LAMBDA f :
                 IF f.res.ok
                 THEN Ret([f.w EXCEPT
                              !.lockdata = Append(@, [repo |-> repo, reference |-> reference,
                                                      commit_id |-> f.res.val, stale |-> TRUE]),
                              !.modified = TRUE],
                          Ok(Len(w.lockdata) + 1))
                 ELSE Ret(f.w, f.res))
        ELSE Ret(w, Ok(it)))

get_or_fetch_modified_before_fetch(w, repo, reference) ==
    Bind(LockFind(w.lockdata, repo, reference), LAMBDA it :
        IF it = 0
        THEN Bind(git_fetch_from_remote_registry(w, repo, reference, "get_or_fetch"), LAMBDA f :
                 IF f.res.ok
                 THEN Ret([f.w EXCEPT
                              !.lockdata = Append(@, [repo |-> repo, reference |-> reference,
                                                      commit_id |-> f.res.val, stale |-> FALSE]),
                              !.modified = TRUE],
                          Ok(Len(w.lockdata) + 1))
                 ELSE Ret([f.w EXCEPT !.modified = TRUE], f.res))
        ELSE Ret(w, Ok(it)))

\* a get_or_fetch that never looks for an entry
get_or_fetch_never_finds(w, repo, reference) ==
    Bind(git_fetch_from_remote_registry(w, repo, reference, "get_or_fetch"), LAMBDA f :
        IF f.res.ok
        THEN Ret([f.w EXCEPT
                     !.lockdata = Append(@, [repo |-> repo, reference |-> reference,
                                             commit_id |-> f.res.val, stale |-> FALSE]),
                     !.modified = TRUE],
                 Ok(Len(w.lockdata) + 1))
        ELSE Ret(f.w, f.res))

\* the Entry returned is the position of its EntryData in lockdata
get_or_fetch(w, repo, reference) ==
    Bind(LockFind(w.lockdata, repo, reference), LAMBDA it :
        IF it = 0
        THEN Bind(git_fetch_from_remote_registry(w, repo, reference, "get_or_fetch"), LAMBDA f :
                 IF f.res.ok
                 THEN Ret([f.w EXCEPT
                              !.lockdata = Append(@, [repo |-> repo, reference |-> reference,
                                                      commit_id |-> f.res.val, stale |-> FALSE]),
                              !.modified = TRUE],
                          Ok(Len(w.lockdata) + 1))
                 ELSE Ret(f.w, f.res))
        ELSE Ret(w, Ok(it)))

\* mutants of ensure_up_to_date
ensure_up_to_date_keeps_stale(w, entry) ==
    IF w.lockdata[entry].stale
    THEN Bind(git_fetch_from_remote_registry(w, w.lockdata[entry].repo,
                                             w.lockdata[entry].reference, "ensure_up_to_date"),
              LAMBDA f :
             IF f.res.ok
             THEN Ret([f.w EXCEPT !.lockdata[entry].commit_id = f.res.val,
                                  !.modified = TRUE],
                      Ok(Unit))
             ELSE Ret(f.w, f.res))
    ELSE Ret(w, Ok(Unit))

ensure_up_to_date_always_fetches(w, entry) ==
    Bind(git_fetch_from_remote_registry(w, w.lockdata[entry].repo,
                                        w.lockdata[entry].reference, "ensure_up_to_date"),
         LAMBDA f :
        IF f.res.ok
        THEN Ret([f.w EXCEPT !.lockdata[entry].commit_id = f.res.val,
                             !.lockdata[entry].stale = FALSE,
                             !.modified = TRUE],
                 Ok(Unit))
        ELSE Ret(f.w, f.res))

ensure_up_to_date_forgets_modified(w, entry) ==
    IF w.lockdata[entry].stale
    THEN Bind(git_fetch_from_remote_registry(w, w.lockdata[entry].repo,
                                             w.lockdata[entry].reference, "ensure_up_to_date"),
              LAMBDA f :
             IF f.res.ok
             THEN Ret([f.w EXCEPT !.lockdata[entry].commit_id = f.res.val,
                                  !.lockdata[entry].stale = FALSE],
                      Ok(Unit))
             ELSE Ret(f.w, f.res))
    ELSE Ret(w, Ok(Unit))

ensure_up_to_date_gives_up(w, entry) ==
    IF w.lockdata[entry].stale
    THEN Bind(git_fetch_from_remote_registry(w, w.lockdata[entry].repo,
                                             w.lockdata[entry].reference, "ensure_up_to_date"),
              LAMBDA f :
             IF f.res.ok
             THEN Ret([f.w EXCEPT !.lockdata[entry].commit_id = f.res.val,
                                  !.lockdata[entry].stale = FALSE,
                                  !.modified = TRUE],
                      Ok(Unit))
             ELSE Ret([f.w EXCEPT !.lockdata[entry].stale = FALSE], f.res))
    ELSE Ret(w, Ok(Unit))

ensure_up_to_date(w, entry) ==
    IF w.lockdata[entry].stale
    THEN Bind(git_fetch_from_remote_registry(w, w.lockdata[entry].repo,
                                             w.lockdata[entry].reference, "ensure_up_to_date"),
              LAMBDA f :
             IF f.res.ok
             THEN Ret([f.w EXCEPT !.lockdata[entry].commit_id = f.res.val,
                                  !.lockdata[entry].stale = FALSE,
                                  !.modified = TRUE],
                      Ok(Unit))
             ELSE Ret(f.w, f.res))
    ELSE Ret(w, Ok(Unit))

\* ------------------------------------------------------------------------
\* The "path" of an entry of a filesystem registry's version database
\* ------------------------------------------------------------------------

\* the characters of the paths handed to the deserializer
PathChars == {"$", "/", "\\", ".", "f"}
PathStrings(n) == UNION {[1..k -> PathChars] : k \in 0..n}

\* the root directory of the filesystem registry
RegistryRoot == <<"r">>

\* Path::operator/
Path_join(base, rel) == [base |-> base, rel |-> rel]

\* Strings::starts_with
Strings_starts_with(s, prefix) ==
    Len(s) >= Len(prefix) /\ \A i \in 1..Len(prefix) : s[i] = prefix[i]

\* Strings::contains
Strings_contains(s, needle) ==
    \E i \in 1..(Len(s) + 1 - Len(needle)) : \A j \in 1..Len(needle) : s[i + j - 1] = needle[j]

\* std::find(first, last, ch): the position of the first ch at or after first, Len + 1 if none
RECURSIVE std_find(_, _, _)
std_find(s, first, ch) ==
    IF first > Len(s) THEN Len(s) + 1
    ELSE IF s[first] = ch THEN first
    ELSE std_find(s, first + 1, ch)

\* a loop that looks at the component after the first slash only
dots_loop_first_component(path_res, first) ==
    Bind(std_find(path_res, first, "/"), LAMBDA slash :
        IF slash = Len(path_res) + 1 THEN TRUE
        ELSE IF slash + 1 = Len(path_res) + 1 THEN TRUE
        ELSE IF path_res[slash + 1] # "." THEN TRUE
        ELSE IF slash + 2 = Len(path_res) + 1 \/ path_res[slash + 2] = "/" THEN FALSE
        ELSE IF path_res[slash + 2] # "." THEN TRUE
        ELSE IF slash + 3 = Len(path_res) + 1 \/ path_res[slash + 3] = "/" THEN FALSE
        ELSE TRUE)

\* the loop of visit_object over the slashes of path_res, from position first on:
\* FALSE when it adds the MustNotHaveDots error, TRUE when it breaks out
RECURSIVE dots_loop(_, _)
dots_loop(path_res, first) ==
    Bind(std_find(path_res, first, "/"), LAMBDA slash :
        IF slash = Len(path_res) + 1 THEN TRUE
        ELSE IF slash + 1 = Len(path_res) + 1 THEN TRUE
        ELSE IF path_res[slash + 1] # "." THEN dots_loop(path_res, slash + 1)
        ELSE IF slash + 2 = Len(path_res) + 1 \/ path_res[slash + 2] = "/" THEN FALSE
        ELSE IF path_res[slash + 2] # "." THEN dots_loop(path_res, slash + 2)
        ELSE IF slash + 3 = Len(path_res) + 1 \/ path_res[slash + 3] = "/" THEN FALSE
        ELSE dots_loop(path_res, slash + 3))

\* VersionDbEntryDeserializer::visit_object for VersionDbType::Filesystem: the entry it
\* returns (nullopt as None) and the errors it adds to the reader
VersionDbEntryDeserializer_visit_object(registry_root, version, path_res) ==
    IF ~Strings_starts_with(path_res, <<"$", "/">>)
    THEN [ret |-> None,
          errors |-> <<(<<"ARegistryPath", "ARegistryPathMustStartWithDollar">>)>>]
    ELSE IF Strings_contains(path_res, <<"\\">>) \/ Strings_contains(path_res, <<"/", "/">>)
    THEN [ret |-> None,
          errors |-> <<(<<"ARegistryPath", "ARegistryPathMustBeDelimitedWithForwardSlashes">>)>>]
    ELSE IF ~dots_loop(path_res, 1)
    THEN [ret |-> None,
          errors |-> <<(<<"ARegistryPath", "ARegistryPathMustNotHaveDots">>)>>]
    ELSE [ret |-> Some([version |-> version,
                        p |-> Path_join(registry_root, SubSeq(path_res, 3, Len(path_res)))]),
          errors |-> <<>>]

\* load_versions_file of a filesystem registry on a versions file whose "versions" array
\* holds one entry with the given path
load_versions_file_of_path(registry_root, version, path_res) ==
    Bind(VersionDbEntryDeserializer_visit_object(registry_root, version, path_res), LAMBDA visited :
        IF visited.errors # <<>>
        THEN Err(<<"FailedToParseVersionsFile", visited.errors>>)
        ELSE Ok(Some(<<visited.ret.v>>)))

\* ------------------------------------------------------------------------
\* load_versions_file
\* ------------------------------------------------------------------------

\* VersionDbType
VersionDbTypes == {"Git", "Filesystem"}

\* VersionDbEntryDeserializer::visit_object on one object of the "versions" array, for
\* either type: a required field that is absent adds an error and leaves the member empty
VersionDbEntryDeserializer_visit_object_of_type(type, registry_root, obj) ==
    IF type = "Git"
    THEN (IF "git_tree" \in DOMAIN obj
          THEN [ret |-> Some([version |-> obj.version, git_tree |-> obj.git_tree]),
                errors |-> <<>>]
          ELSE [ret |-> Some([version |-> obj.version, git_tree |-> ""]),
                errors |-> <<(<<"MissingRequiredField", "git-tree">>)>>])
    ELSE IF "path" \in DOMAIN obj
    THEN VersionDbEntryDeserializer_visit_object(registry_root, obj.version, obj.path)
    ELSE Bind(VersionDbEntryDeserializer_visit_object(registry_root, obj.version, <<>>),
              LAMBDA visited :
             [ret |-> visited.ret,
              errors |-> <<(<<"MissingRequiredField", "path">>)>> \o visited.errors])

\* Json::Reader::array_elements over the first k elements of the array: the entries the
\* deserializer returned, in the order of the array, and the errors the reader holds
RECURSIVE array_elements(_, _, _, _)
array_elements(type, registry_root, arr, k) ==
    IF k = 0
    THEN [db_entries |-> <<>>, errors |-> <<>>]
    ELSE Bind(array_elements(type, registry_root, arr, k - 1), LAMBDA before :
         Bind(VersionDbEntryDeserializer_visit_object_of_type(type, registry_root, arr[k]),
              LAMBDA visited :
             [db_entries |-> IF visited.ret.has
                             THEN Append(before.db_entries, visited.ret.v)
                             ELSE before.db_entries,
              errors |-> before.errors \o visited.errors]))

\* a load_versions_file that takes every failure of read_contents for a missing file
load_versions_file_contents_hides_read_errors(type, file, registry_root) ==
    IF file.kind \in {"missing", "io_error"} THEN Ok(None)
    ELSE IF file.kind = "malformed" THEN Err(<<"VersionsFileParse">>)
    ELSE IF file.kind = "not_object" THEN Err(<<"FailedToParseNoTopLevelObj">>)
    ELSE IF file.kind = "no_versions_array" THEN Err(<<"FailedToParseNoVersionsArray">>)
    ELSE Bind(array_elements(type, registry_root, file.entries, Len(file.entries)), LAMBDA r :
             IF r.errors # <<>>
             THEN Err(<<"FailedToParseVersionsFile", r.errors>>)
             ELSE Ok(Some(r.db_entries)))

\* load_versions_file(fs, type, registry_versions, port_name, registry_root), on what
\* read_contents finds at the port's versions file
load_versions_file_contents(type, file, registry_root) ==
    IF file.kind = "missing" THEN Ok(None)
    ELSE IF file.kind = "io_error" THEN Err(<<"FilesystemCall", "read_contents">>)
    ELSE IF file.kind = "malformed" THEN Err(<<"VersionsFileParse">>)
    ELSE IF file.kind = "not_object" THEN Err(<<"FailedToParseNoTopLevelObj">>)
    ELSE IF file.kind = "no_versions_array" THEN Err(<<"FailedToParseNoVersionsArray">>)
    ELSE Bind(array_elements(type, registry_root, file.entries, Len(file.entries)), LAMBDA r :
             IF r.errors # <<>>
             THEN Err(<<"FailedToParseVersionsFile", r.errors>>)
             ELSE Ok(Some(r.db_entries)))

\* ------------------------------------------------------------------------
\* PortVersionsGitTreesStructOfArrays
\* ------------------------------------------------------------------------

StructOfArrays(db_entries) ==
    [port_versions |-> [i \in 1..Len(db_entries) |-> db_entries[i].version],
     git_trees |-> [i \in 1..Len(db_entries) |-> db_entries[i].git_tree]]

\* a lookup that returns the git tree of the last entry with the version
try_get_git_tree_last_match(soa, version) ==
    Bind({i \in 1..Len(soa.port_versions) : soa.port_versions[i] = version}, LAMBDA hits :
        IF hits = {}
        THEN None
        ELSE Some(soa.git_trees[CHOOSE i \in hits : \A j \in hits : i >= j]))

\* std::find over m_port_versions, then the git tree at the same index
try_get_git_tree(soa, version) ==
    Bind({i \in 1..Len(soa.port_versions) : soa.port_versions[i] = version}, LAMBDA hits :
        IF hits = {}
        THEN None
        ELSE Some(soa.git_trees[CHOOSE i \in hits : \A j \in hits : i <= j]))

\* load_versions_file(fs, VersionDbType::Git, vdb_path, port_name)
load_versions_file(vdb_path, port_name) ==
    load_versions_file_contents("Git", VersionsFileAt(vdb_path[2], port_name), <<>>)

\* ------------------------------------------------------------------------
\* GitRegistry
\* ------------------------------------------------------------------------

GitRegistryInit ==
    [m_lock_entry |-> Unset, m_stale_versions_tree |-> Unset, m_versions_tree |-> Unset,
     m_baseline |-> Unset,
     m_stale_versions |-> EmptyCache,
     m_live_versions |-> EmptyCache]

get_lock_entry(w, g) ==
    IF w.git[g].m_lock_entry.set
    THEN Ret(w, w.git[g].m_lock_entry.r)
    ELSE Bind(get_or_fetch(w, GitConfig[g].repo, GitConfig[g].reference), LAMBDA r :
             Ret([r.w EXCEPT !.git[g].m_lock_entry = Cached(r.res)], r.res))

get_versions_tree_from_entry(w, g, lock_entry, emit_telemetry) ==
    Bind(w.lockdata[lock_entry].commit_id, LAMBDA commit :
    Bind(Call(w, <<"git_find_object_id_for_remote_registry_path", commit>>), LAMBDA w1 :
        IF treeStatus[commit] = "no_versions"
        THEN Ret([w1 EXCEPT !.metrics =
                     IF emit_telemetry THEN @ \cup {"RegistriesErrorNoVersionsAtCommit"} ELSE @],
                 Err(<<"CouldNotFindGitTreeAtCommit", GitConfig[g].repo, commit>>))
        ELSE Bind(Call(w1, <<"git_extract_tree_from_remote_registry", <<"versions", commit>>>>),
                  LAMBDA w2 :
                 IF treeStatus[commit] = "no_extract"
                 THEN Ret(w2, Err(<<"FailedToCheckoutRepo", GitConfig[g].repo>>))
                 ELSE Ret(w2, Ok(<<"versions", commit>>)))))

\* the value the loader of get_versions produces for a port
load_versions(vdb_path, port_name) ==
    Bind(load_versions_file(vdb_path, port_name), LAMBDA loaded :
        IF ~loaded.ok THEN loaded
        ELSE IF ~loaded.val.has THEN Ok(None)
        ELSE Ok(Some(StructOfArrays(loaded.val.v))))

\* cache.get_lazy(port_name, loader) over m_stale_versions or m_live_versions;
\* loaded is what the loader returns if it is run
cache_versions(w, g, live, port_name, loaded) ==
    Bind(IF live THEN w.git[g].m_live_versions ELSE w.git[g].m_stale_versions, LAMBDA cache :
        IF CacheHas(cache, port_name)
        THEN Ret(w, cache[port_name])
        ELSE Ret(IF live
                 THEN [w EXCEPT !.git[g].m_live_versions = CachePut(@, port_name, loaded)]
                 ELSE [w EXCEPT !.git[g].m_stale_versions = CachePut(@, port_name, loaded)],
                 loaded))

get_versions(w, g, live, port_name, vdb_path) ==
    cache_versions(w, g, live, port_name, load_versions(vdb_path, port_name))

get_live_versions_tree_path(w, g) ==
    IF w.git[g].m_versions_tree.set
    THEN Ret(w, w.git[g].m_versions_tree.r)
    ELSE Bind(get_lock_entry(w, g), LAMBDA le :
             IF ~le.res.ok
             THEN Ret([le.w EXCEPT !.git[g].m_versions_tree = Cached(le.res)], le.res)
             ELSE Bind(ensure_up_to_date(le.w, le.res.val), LAMBDA up :
                      IF ~up.res.ok
                      THEN Ret([up.w EXCEPT !.git[g].m_versions_tree = Cached(up.res)], up.res)
                      ELSE Bind(get_versions_tree_from_entry(up.w, g, le.res.val, TRUE),
                                LAMBDA t :
                               Ret([t.w EXCEPT !.git[g].m_versions_tree = Cached(t.res)],
                                   t.res))))

\* m_stale_versions_tree.get_lazy(...)
get_stale_versions_tree_path(w, g, lock_entry) ==
    IF w.git[g].m_stale_versions_tree.set
    THEN Ret(w, w.git[g].m_stale_versions_tree.r)
    ELSE Bind(get_versions_tree_from_entry(w, g, lock_entry, FALSE), LAMBDA x :
             Ret([x.w EXCEPT !.git[g].m_stale_versions_tree = Cached(x.res)], x.res))

get_stale_versions(w, g, lock_entry, port_name) ==
    IF ~w.lockdata[lock_entry].stale
    THEN Ret([w EXCEPT !.crashed = TRUE], Err(<<"unreachable", "Non-stale stale versions">>))
    ELSE Bind(get_stale_versions_tree_path(w, g, lock_entry), LAMBDA t :
             IF ~t.res.ok
             THEN cache_versions(t.w, g, FALSE, port_name, t.res)
             ELSE get_versions(t.w, g, FALSE, port_name, t.res.val))

get_live_versions(w, g, port_name) ==
    Bind(get_live_versions_tree_path(w, g), LAMBDA t :
        IF ~t.res.ok
        THEN cache_versions(t.w, g, TRUE, port_name, t.res)
        ELSE get_versions(t.w, g, TRUE, port_name, t.res.val))

load_git_tree(w, g, git_tree) ==
    Bind(Call(w, <<"git_extract_tree_from_remote_registry", git_tree>>), LAMBDA w1 :
        IF git_tree \in badTrees
        THEN Ret(w1, Err(<<"GitCheckoutFailed", git_tree>>))
        ELSE Ret(w1, Ok(Some([path |-> <<"git-trees", git_tree>>,
                              location |-> <<"git+", GitConfig[g].repo, "@", git_tree>>]))))

\* is_git_commit_sha: exactly 40 lowercase hexadecimal characters
is_git_commit_sha(s) == Len(s) = 40 /\ \A i \in 1..40 : s[i] \in HexLower

\* paths.git_show_from_remote_registry(sha, versions/baseline.json)
git_show_from_remote_registry(w, sha) ==
    Bind(sha \in w.gitObjects /\ baselineSource # "no_file", LAMBDA found :
        IF found
        THEN Ret(Call(w, <<"git_show_from_remote_registry", sha, found>>), Ok(BaselineFileAt(sha)))
        ELSE Ret(Call(w, <<"git_show_from_remote_registry", sha, found>>),
                 Err(<<"git show failed", sha>>)))

\* paths.git_fetch(repo, sha)
git_fetch(w, repo, sha) ==
    Bind(baselineSource \in {"with_ref", "by_sha", "no_file"}, LAMBDA found :
        IF found
        THEN Ret([Call(w, <<"git_fetch", repo, sha, found>>) EXCEPT !.gitObjects = @ \cup {sha}],
                 Ok(Unit))
        ELSE Ret(Call(w, <<"git_fetch", repo, sha, found>>),
                 Err(<<"git fetch failed", repo, sha>>)))

\* parse_baseline_versions(contents, "default", origin)
parse_baseline_versions(contents) == Ok(Some(contents))

Metric(w, m) == [w EXCEPT !.metrics = @ \cup {m}]

\* get_baseline_version, lines 1149-1177: the contents were obtained or not
baseline_from_contents(w, g, port_name, maybe_contents) ==
    IF ~maybe_contents.ok
    THEN Ret(Metric(w, "RegistriesErrorCouldNotFindBaseline"),
             Err(<<"CouldNotFindBaselineInCommit", GitConfig[g].repo, GitConfig[g].baseline,
                   port_name>>))
    ELSE Bind(parse_baseline_versions(maybe_contents.val), LAMBDA res_baseline :
             IF res_baseline.ok
             THEN IF res_baseline.val.has
                  THEN Ret(w, Ok(res_baseline.val.v))
                  ELSE Ret(Metric(w, "RegistriesErrorCouldNotFindBaseline"),
                           Err(<<"BaselineMissingDefault", GitConfig[g].baseline,
                                 GitConfig[g].repo>>))
             ELSE Ret(w, Err(<<"ErrorWhileFetchingBaseline", GitConfig[g].baseline,
                               GitConfig[g].repo>>)))

\* get_baseline_version, lines 1134-1147: second retry, fetch the baseline commit itself
baseline_after_refresh(w, g, port_name, maybe_contents) ==
    IF maybe_contents.ok
    THEN baseline_from_contents(w, g, port_name, maybe_contents)
    ELSE Bind(git_fetch(w, GitConfig[g].repo, GitConfig[g].baseline), LAMBDA f :
             IF ~f.res.ok
             THEN Ret(Metric(f.w, "RegistriesErrorCouldNotFindBaseline"),
                      Err(<<"FailedToFetchRepo", GitConfig[g].repo>>))
             ELSE Bind(git_show_from_remote_registry(f.w, GitConfig[g].baseline), LAMBDA s3 :
                      baseline_from_contents(s3.w, g, port_name, s3.res)))

\* mutant of baseline_after_show
baseline_after_show_fetches_first(w, g, port_name, maybe_contents) ==
    baseline_after_refresh(w, g, port_name, maybe_contents)

\* get_baseline_version, lines 1116-1132: first retry, bring the lock entry up to date
baseline_after_show(w, g, port_name, maybe_contents) ==
    IF maybe_contents.ok
    THEN baseline_after_refresh(w, g, port_name, maybe_contents)
    ELSE Bind(get_lock_entry(w, g), LAMBDA le :
             IF ~le.res.ok
             THEN le
             ELSE Bind(ensure_up_to_date(le.w, le.res.val), LAMBDA up :
                      IF ~up.res.ok
                      THEN up
                      ELSE Bind(git_show_from_remote_registry(up.w, GitConfig[g].baseline),
                                LAMBDA s2 :
                               baseline_after_refresh(s2.w, g, port_name, s2.res))))

\* mutant of load_baseline
load_baseline_names_pinned_commit(w, g, port_name) ==
    IF ~is_git_commit_sha(GitConfig[g].baseline)
    THEN Bind(get_lock_entry(w, g), LAMBDA le :
             IF ~le.res.ok
             THEN le
             ELSE Ret(le.w, Err(<<"GitRegistryMustHaveBaseline", GitConfig[g].repo,
                                  le.w.lockdata[le.res.val].commit_id>>)))
    ELSE Bind(git_show_from_remote_registry(w, GitConfig[g].baseline), LAMBDA s1 :
             baseline_after_show(s1.w, g, port_name, s1.res))

\* the loader passed to m_baseline.get_lazy
load_baseline(w, g, port_name) ==
    IF ~is_git_commit_sha(GitConfig[g].baseline)
    THEN Bind(get_lock_entry(w, g), LAMBDA le :
             IF ~le.res.ok
             THEN le
             ELSE Bind(ensure_up_to_date(le.w, le.res.val), LAMBDA up :
                      IF up.res.ok
                      THEN Ret(up.w, Err(<<"GitRegistryMustHaveBaseline", GitConfig[g].repo,
                                           up.w.lockdata[le.res.val].commit_id>>))
                      ELSE up))
    ELSE Bind(git_show_from_remote_registry(w, GitConfig[g].baseline), LAMBDA s1 :
             baseline_after_show(s1.w, g, port_name, s1.res))

\* get_port, lines 1056-1071: the lookup in the live version database
get_port_live(w, g, spec) ==
    Bind(get_live_versions(w, g, spec.port_name), LAMBDA lv :
        IF ~lv.res.ok
        THEN lv
        ELSE Bind(IF lv.res.val.has THEN try_get_git_tree(lv.res.val.v, spec.version) ELSE None,
                  LAMBDA live_tree :
                 IF live_tree.has
                 THEN load_git_tree(lv.w, g, live_tree.v)
                 ELSE Ret(lv.w, Ok(None))))

\* get_port, lines 1043-1053: the git tree the stale version database has for spec
stale_git_tree(st, spec) ==
    IF st.res.ok /\ st.res.val.has
    THEN try_get_git_tree(st.res.val.v, spec.version)
    ELSE None

\* mutant of GitRegistry_get_port
GitRegistry_get_port_skips_stale(w, g, spec) ==
    Bind(get_lock_entry(w, g), LAMBDA le :
        IF ~le.res.ok
        THEN le
        ELSE get_port_live(le.w, g, spec))

\* a get_port that asks the stale database without looking at the entry's stale flag
GitRegistry_get_port_ignores_stale_flag(w, g, spec) ==
    Bind(get_lock_entry(w, g), LAMBDA le :
        IF ~le.res.ok
        THEN le
        ELSE Bind(get_stale_versions(le.w, g, le.res.val, spec.port_name), LAMBDA st :
             Bind(stale_git_tree(st, spec), LAMBDA git_tree :
                 IF git_tree.has
                 THEN load_git_tree(st.w, g, git_tree.v)
                 ELSE get_port_live(st.w, g, spec))))

GitRegistry_get_port(w, g, spec) ==
    Bind(get_lock_entry(w, g), LAMBDA le :
        IF ~le.res.ok
        THEN le
        ELSE IF le.w.lockdata[le.res.val].stale
        THEN Bind(get_stale_versions(le.w, g, le.res.val, spec.port_name), LAMBDA st :
             Bind(stale_git_tree(st, spec), LAMBDA git_tree :
                 IF git_tree.has
                 THEN load_git_tree(st.w, g, git_tree.v)
                 ELSE get_port_live(st.w, g, spec)))
        ELSE get_port_live(le.w, g, spec))

\* a get_all_port_versions that reports only the first version the database lists
GitRegistry_get_all_port_versions_first_only(w, g, port_name) ==
    Bind(get_live_versions(w, g, port_name), LAMBDA lv :
        IF ~lv.res.ok
        THEN lv
        ELSE IF lv.res.val.has
        THEN Ret(lv.w, Ok(Some(SubSeq(lv.res.val.v.port_versions, 1, 1))))
        ELSE Ret(lv.w, Ok(None)))

GitRegistry_get_all_port_versions(w, g, port_name) ==
    Bind(get_live_versions(w, g, port_name), LAMBDA lv :
        IF ~lv.res.ok
        THEN lv
        ELSE IF lv.res.val.has
        THEN Ret(lv.w, Ok(Some(lv.res.val.v.port_versions)))
        ELSE Ret(lv.w, Ok(None)))

\* m_baseline.get_lazy(...)
get_baseline(w, g, port_name) ==
    IF w.git[g].m_baseline.set
    THEN Ret(w, w.git[g].m_baseline.r)
    ELSE Bind(load_baseline(w, g, port_name), LAMBDA b :
             Ret([b.w EXCEPT !.git[g].m_baseline = Cached(b.res)], b.res))

GitRegistry_get_baseline_version(w, g, port_name) ==
    Bind(get_baseline(w, g, port_name), LAMBDA mb :
        IF ~mb.res.ok
        THEN mb
        ELSE IF port_name \in DOMAIN mb.res.val
        THEN Ret(mb.w, Ok(Some(mb.res.val[port_name])))
        ELSE Ret(mb.w, Ok(None)))

\* load_all_port_names_from_registry_versions: one name per <port>.json under the tree
load_all_port_names_from_registry_versions(out, port_versions_path) ==
    IF port_versions_path[2] = "builtin" /\ disk.versions_dir = "error"
    THEN Err(<<"FilesystemCall", "try_get_directories_non_recursive", port_versions_path>>)
    ELSE
    Ok(out \o (IF VersionsFileAt(port_versions_path[2], NameA).kind # "missing"
               THEN <<NameA>> ELSE <<>>)
           \o (IF VersionsFileAt(port_versions_path[2], NameAB).kind # "missing"
               THEN <<NameAB>> ELSE <<>>))

\* returns the extended out as the value of a successful result
GitRegistry_append_all_port_names(w, g, out) ==
    Bind(get_live_versions_tree_path(w, g), LAMBDA t :
        IF t.res.ok
        THEN Ret(t.w, load_all_port_names_from_registry_versions(out, t.res.val))
        ELSE t)

\* ------------------------------------------------------------------------
\* Overlay directories on disk and the recipe parser
\* ------------------------------------------------------------------------

OverlayNames == {NameA, NameB}

NotAPort == [k |-> "none"]
Broken == [k |-> "error"]
PortDir(n) == [k |-> "port", name |-> n]
DiskEntries == {NotAPort, Broken} \cup {PortDir(n) : n \in OverlayNames}

\* an overlay directory: a port itself, unreadable, or a directory of port directories
OverlayDirs ==
    {[self |-> s, subs |-> [n \in OverlayNames |-> NotAPort]] : s \in DiskEntries \ {NotAPort}}
    \cup {[self |-> NotAPort, subs |-> f] : f \in [OverlayNames -> DiskEntries]}

OverlayLayouts == UNION {[1..n -> OverlayDirs] : n \in 0..MaxOverlays}

NullScfl == [source_control_file |-> None, control_path |-> <<>>, location |-> <<>>]

Scfl(name, version, control_path) ==
    [source_control_file |-> Some([name |-> name, version |-> version]),
     control_path |-> control_path, location |-> <<>>]

\* what the directory dir holds: <<i>> is overlay i, <<i, n>> its subdirectory n
DiskEntryAt(dir) ==
    IF Len(dir) = 1 THEN overlays[dir[1]].self
    ELSE IF dir[2] \in DOMAIN overlays[dir[1]].subs THEN overlays[dir[1]].subs[dir[2]]
    ELSE NotAPort

\* Paragraphs::try_load_port(fs, PortLocation{dir}).maybe_scfl
try_load_port(dir) ==
    Bind(DiskEntryAt(dir), LAMBDA e :
        IF e.k = "error" THEN Err(<<"ParseControlError", dir>>)
        ELSE IF e.k = "none" THEN Ok(NullScfl)
        ELSE Ok(Scfl(e.name, "1.0", dir)))

\* Paragraphs::try_load_overlay_ports(fs, dir): every port directory under dir, in
\* directory order, and the errors of those that failed to load
try_load_overlay_ports(dir) ==
    [paragraphs |->
        (IF DiskEntryAt(<<dir[1], NameA>>).k = "port"
         THEN <<try_load_port(<<dir[1], NameA>>).val>> ELSE <<>>)
        \o (IF DiskEntryAt(<<dir[1], NameB>>).k = "port"
            THEN <<try_load_port(<<dir[1], NameB>>).val>> ELSE <<>>),
     errors |->
        (IF DiskEntryAt(<<dir[1], NameA>>).k = "error"
         THEN <<try_load_port(<<dir[1], NameA>>).err>> ELSE <<>>)
        \o (IF DiskEntryAt(<<dir[1], NameB>>).k = "error"
            THEN <<try_load_port(<<dir[1], NameB>>).err>> ELSE <<>>)]

to_name(scfl) == scfl.source_control_file.v.name

\* ------------------------------------------------------------------------
\* OverlayProviderImpl
\* ------------------------------------------------------------------------

\* std::map::emplace: the value already stored under the key is kept
Emplace(map, key, value) == IF key \in DOMAIN map THEN map ELSE CachePut(map, key, value)

\* load_port, lines 274-296: the subdirectory <overlay>/<port_name>
\* (a result with next = TRUE sends the loop on to the next overlay)
load_port_subdirectory(i, port_name) ==
    Bind(try_load_port(<<i, port_name>>), LAMBDA found_scfl :
        IF ~found_scfl.ok
        THEN [next |-> FALSE, res |-> found_scfl]
        ELSE IF found_scfl.val.source_control_file.has
        THEN IF to_name(found_scfl.val) = port_name
             THEN [next |-> FALSE, res |-> found_scfl]
             ELSE [next |-> FALSE,
                   res |-> Err(<<"MismatchedNames", <<i, port_name>>, port_name,
                                 to_name(found_scfl.val)>>)]
        ELSE [next |-> TRUE, res |-> found_scfl])

\* load_port, lines 251-296: one iteration of the loop over m_overlay_ports
load_port_in_overlay(i, port_name) ==
    Bind(try_load_port(<<i>>), LAMBDA maybe_scfl :
        IF ~maybe_scfl.ok
        THEN [next |-> FALSE, res |-> maybe_scfl]
        ELSE IF maybe_scfl.val.source_control_file.has
        THEN IF to_name(maybe_scfl.val) = port_name
             THEN [next |-> FALSE, res |-> maybe_scfl]
             ELSE [next |-> TRUE, res |-> maybe_scfl]
        ELSE load_port_subdirectory(i, port_name))

RECURSIVE load_port_from(_, _)
load_port_from(i, port_name) ==
    IF i > Len(overlays)
    THEN Ok(NullScfl)
    ELSE Bind(load_port_in_overlay(i, port_name), LAMBDA step :
             IF step.next THEN load_port_from(i + 1, port_name) ELSE step.res)

load_port(port_name) == load_port_from(1, port_name)

OverlayProvider_get_control_file(w, port_name) ==
    IF CacheHas(w.m_overlay_cache, port_name)
    THEN Ret(w, w.m_overlay_cache[port_name])
    ELSE Bind(load_port(port_name), LAMBDA loaded :
             Ret([w EXCEPT !.m_overlay_cache = CachePut(@, port_name, loaded)], loaded))

\* load_all_control_files, lines 333-336 and 364-367: cache the port and report it;
\* x is the pair (world, out)
overlay_emplace(x, scfl) ==
    Bind(Emplace(x.w.m_overlay_cache, to_name(scfl), Ok(scfl)), LAMBDA cache :
        IF ~cache[to_name(scfl)].ok
        THEN [w |-> [x.w EXCEPT !.m_overlay_cache = cache, !.crashed = TRUE], res |-> x.res]
        ELSE [w |-> [x.w EXCEPT !.m_overlay_cache = cache],
              res |-> Emplace(x.res, to_name(scfl), cache[to_name(scfl)].val)])

RECURSIVE overlay_emplace_all(_, _, _)
overlay_emplace_all(x, paragraphs, k) ==
    IF k > Len(paragraphs) \/ x.w.crashed
    THEN x
    ELSE overlay_emplace_all(overlay_emplace(x, paragraphs[k]), paragraphs, k + 1)

\* load_all_control_files, lines 323-368: one iteration of the loop
load_all_in_overlay(x, i) ==
    Bind(try_load_port(<<i>>), LAMBDA maybe_scfl :
        IF ~maybe_scfl.ok
        THEN [w |-> [x.w EXCEPT !.crashed = TRUE], res |-> x.res]
        ELSE IF maybe_scfl.val.source_control_file.has
        THEN overlay_emplace(x, maybe_scfl.val)
        ELSE Bind(try_load_overlay_ports(<<i>>), LAMBDA results :
                 IF results.errors # <<>>
                 THEN [w |-> [x.w EXCEPT !.crashed = TRUE], res |-> x.res]
                 ELSE overlay_emplace_all(x, results.paragraphs, 1)))

\* the loop runs from the last overlay to the first
RECURSIVE load_all_from(_, _)
load_all_from(x, i) ==
    IF i < 1 \/ x.w.crashed
    THEN x
    ELSE load_all_from(load_all_in_overlay(x, i), i - 1)

\* the result is the out map after the call
OverlayProvider_load_all_control_files(w, out) == load_all_from(Ret(w, out), Len(overlays))

\* ------------------------------------------------------------------------
\* ManifestProviderImpl
\* ------------------------------------------------------------------------

\* mutant of ManifestProvider_get_control_file
ManifestProvider_get_control_file_overlay_first(w, port_name) ==
    Bind(OverlayProvider_get_control_file(
             Call(w, <<"m_overlay_ports.get_control_file", port_name>>), port_name), LAMBDA o :
        IF o.res.ok /\ ~o.res.val.source_control_file.has
           /\ port_name = to_name(m_manifest_scf_and_location)
        THEN Ret(o.w, Ok(m_manifest_scf_and_location))
        ELSE o)

ManifestProvider_get_control_file(w, port_name) ==
    IF port_name = to_name(m_manifest_scf_and_location)
    THEN Ret(w, Ok(m_manifest_scf_and_location))
    ELSE OverlayProvider_get_control_file(
             Call(w, <<"m_overlay_ports.get_control_file", port_name>>), port_name)

\* the result is the out map after the call
ManifestProvider_load_all_control_files(w, out) ==
    Bind(OverlayProvider_load_all_control_files(w, out), LAMBDA o :
        IF o.w.crashed
        THEN o
        ELSE Ret(o.w, Emplace(o.res, to_name(m_manifest_scf_and_location),
                              m_manifest_scf_and_location)))

\* ------------------------------------------------------------------------
\* RegistrySet: routing a port name to a registry
\* ------------------------------------------------------------------------

\* stands for the largest size_t: larger than the length of every pattern
SIZE_MAX == 2147483647

\* mutant of package_pattern_match
package_pattern_match_prefix_length(name, pattern) ==
    Bind(Len(pattern), LAMBDA pattern_size :
        IF pattern_size # 0 /\ pattern[pattern_size] = "*"
        THEN IF /\ Len(name) >= pattern_size - 1
                /\ \A i \in 1..(pattern_size - 1) : pattern[i] = name[i]
             THEN pattern_size - 1
             ELSE 0
        ELSE IF name = pattern THEN SIZE_MAX ELSE 0)

package_pattern_match(name, pattern) ==
    Bind(Len(pattern), LAMBDA pattern_size :
        IF pattern_size # 0 /\ pattern[pattern_size] = "*"
        THEN IF /\ Len(name) >= pattern_size - 1
                /\ \A i \in 1..(pattern_size - 1) : pattern[i] = name[i]
             THEN pattern_size
             ELSE 0
        ELSE IF name = pattern THEN SIZE_MAX ELSE 0)

Max(a, b) == IF a < b THEN b ELSE a

\* registries_for_port, lines 1474-1478
RECURSIVE longest_prefix(_, _, _)
longest_prefix(name, patterns, k) ==
    IF k > Len(patterns)
    THEN 0
    ELSE Max(package_pattern_match(name, patterns[k]), longest_prefix(name, patterns, k + 1))

\* registries_for_port, lines 1471-1484
RECURSIVE registry_candidates(_, _, _)
registry_candidates(name, registries, k) ==
    IF k > Len(registries)
    THEN <<>>
    ELSE Bind(longest_prefix(name, registries[k].patterns, 1), LAMBDA matched :
             (IF matched # 0
              THEN <<[impl |-> registries[k].impl, matched_prefix |-> matched]>>
              ELSE <<>>)
             \o registry_candidates(name, registries, k + 1))

\* std::stable_sort with lhs.matched_prefix > rhs.matched_prefix: c goes behind every
\* candidate that does not match less than it does
RECURSIVE stable_insert(_, _)
stable_insert(sorted, c) ==
    IF sorted = <<>>
    THEN <<c>>
    ELSE IF c.matched_prefix > sorted[1].matched_prefix
    THEN <<c>> \o sorted
    ELSE <<sorted[1]>> \o stable_insert(Tail(sorted), c)

RECURSIVE stable_sort(_, _)
stable_sort(candidates, k) ==
    IF k = 0 THEN <<>> ELSE stable_insert(stable_sort(candidates, k - 1), candidates[k])

registries_for_port(name) ==
    Bind(registry_candidates(name, registry_set.registries_, 1), LAMBDA candidates :
        Bind(stable_sort(candidates, Len(candidates)), LAMBDA sorted :
            [i \in 1..Len(sorted) |-> sorted[i].impl]))

\* mutant of registry_for_port
registry_for_port_first_match(name) ==
    Bind(registry_candidates(name, registry_set.registries_, 1), LAMBDA candidates :
        IF candidates = <<>> THEN registry_set.default_registry_ ELSE Some(candidates[1].impl))

registry_for_port(name) ==
    Bind(registries_for_port(name), LAMBDA candidates :
        IF candidates = <<>> THEN registry_set.default_registry_ ELSE Some(candidates[1]))

baseline_for_port(w, port_name) ==
    Bind(registry_for_port(port_name), LAMBDA impl :
        IF ~impl.has
        THEN Ret(w, Err(<<"NoRegistryForPort", port_name>>))
        ELSE GitRegistry_get_baseline_version(
                 Call(w, <<"RegistryImplementation::get_baseline_version", impl.v, port_name>>),
                 impl.v, port_name))

\* mutant of RegistrySet_get_port
RegistrySet_get_port_requires_registry(w, spec) ==
    Bind(registry_for_port(spec.port_name), LAMBDA impl :
        IF ~impl.has
        THEN Ret(w, Err(<<"NoRegistryForPort", spec.port_name>>))
        ELSE GitRegistry_get_port(
                 Call(w, <<"RegistryImplementation::get_port", impl.v, spec.port_name,
                           spec.version>>),
                 impl.v, spec))

\* a get_port that asks the default registry when the selected registry has no port
RegistrySet_get_port_falls_back_to_default(w, spec) ==
    Bind(registry_for_port(spec.port_name), LAMBDA impl :
        IF ~impl.has
        THEN Ret(w, Ok(None))
        ELSE Bind(GitRegistry_get_port(
                      Call(w, <<"RegistryImplementation::get_port", impl.v, spec.port_name,
                                spec.version>>),
                      impl.v, spec), LAMBDA first :
                 IF first.res = Ok(None) /\ registry_set.default_registry_.has
                 THEN GitRegistry_get_port(
                          Call(first.w, <<"RegistryImplementation::get_port",
                                          registry_set.default_registry_.v, spec.port_name,
                                          spec.version>>),
                          registry_set.default_registry_.v, spec)
                 ELSE first))

RegistrySet_get_port(w, spec) ==
    Bind(registry_for_port(spec.port_name), LAMBDA impl :
        IF ~impl.has
        THEN Ret(w, Ok(None))
        ELSE GitRegistry_get_port(
                 Call(w, <<"RegistryImplementation::get_port", impl.v, spec.port_name,
                           spec.version>>),
                 impl.v, spec))

RegistrySet_get_all_port_versions(w, port_name) ==
    Bind(registry_for_port(port_name), LAMBDA impl :
        IF ~impl.has
        THEN Ret(w, Ok(None))
        ELSE GitRegistry_get_all_port_versions(
                 Call(w, <<"RegistryImplementation::get_all_port_versions", impl.v,
                           port_name>>),
                 impl.v, port_name))

\* ------------------------------------------------------------------------
\* RegistrySet: the names of all reachable ports
\* ------------------------------------------------------------------------

\* the filesystem registries of the process
FsRegs == {"f1", "f2"}

FilesystemRegistry_append_all_port_names(w, f, out) ==
    IF fsVersions[f].ok
    THEN Ret(w, Ok(out \o fsVersions[f].val))
    ELSE Ret(w, fsVersions[f])

\* a successful result carries the answer and the extended port_names
FilesystemRegistry_try_append_all_port_names_no_network(w, f, port_names) ==
    Bind(FilesystemRegistry_append_all_port_names(w, f, port_names), LAMBDA a :
        IF a.res.ok THEN Ret(a.w, Ok([known |-> TRUE, port_names |-> a.res.val])) ELSE a)

GitRegistry_try_append_all_port_names_no_network(w, g, port_names) ==
    Ret(w, Ok([known |-> FALSE, port_names |-> port_names]))

\* the virtual call registry.implementation().append_all_port_names(result)
RegistryImplementation_append_all_port_names(w, impl, out) ==
    IF impl \in GitRegs
    THEN GitRegistry_append_all_port_names(w, impl, out)
    ELSE FilesystemRegistry_append_all_port_names(w, impl, out)

\* the virtual call registry.implementation().try_append_all_port_names_no_network(result)
RegistryImplementation_try_append_all_port_names_no_network(w, impl, port_names) ==
    IF impl \in GitRegs
    THEN GitRegistry_try_append_all_port_names_no_network(w, impl, port_names)
    ELSE FilesystemRegistry_try_append_all_port_names_no_network(w, impl, port_names)

\* the order of char
CharCode(ch) == IF ch = "*" THEN 42 ELSE IF ch = "a" THEN 97 ELSE 98

\* std::string's operator<
RECURSIVE StringLess(_, _)
StringLess(s, t) ==
    IF t = <<>> THEN FALSE
    ELSE IF s = <<>> THEN TRUE
    ELSE IF CharCode(s[1]) # CharCode(t[1]) THEN CharCode(s[1]) < CharCode(t[1])
    ELSE StringLess(Tail(s), Tail(t))

RECURSIVE sorted_insert(_, _)
sorted_insert(sorted, s) ==
    IF sorted = <<>> THEN <<s>>
    ELSE IF s = sorted[1] THEN sorted
    ELSE IF StringLess(s, sorted[1]) THEN <<s>> \o sorted
    ELSE <<sorted[1]>> \o sorted_insert(Tail(sorted), s)

\* Util::sort_unique_erase: sorted ascending, one copy of each element
RECURSIVE sort_unique_erase(_)
sort_unique_erase(v) ==
    IF v = <<>> THEN <<>> ELSE sorted_insert(sort_unique_erase(Tail(v)), v[1])

matches_any_pattern(name, patterns) ==
    \E i \in 1..Len(patterns) : package_pattern_match(name, patterns[i]) # 0

\* mutant of remove_unreachable_port_names_by_patterns
remove_unreachable_port_names_from_start(result, start_at, patterns) ==
    SelectSeq(result, LAMBDA name : matches_any_pattern(name, patterns))

\* a filter that erases nothing
remove_unreachable_port_names_keeps_all(result, start_at, patterns) == result

\* erases the names of result[start_at .. end] which no pattern matches
remove_unreachable_port_names_by_patterns(result, start_at, patterns) ==
    SubSeq(result, 1, start_at)
    \o SelectSeq(SubSeq(result, start_at + 1, Len(result)),
                 LAMBDA name : matches_any_pattern(name, patterns))

\* get_all_reachable_port_names, lines 1537-1547; x is the pair (world, result so far)
RECURSIVE reachable_from_registries(_, _)
reachable_from_registries(x, k) ==
    IF k > Len(registry_set.registries_) \/ ~x.res.ok
    THEN x
    ELSE Bind(RegistryImplementation_append_all_port_names(
                  x.w, registry_set.registries_[k].impl, x.res.val), LAMBDA this_append :
             IF ~this_append.res.ok
             THEN this_append
             ELSE reachable_from_registries(
                      Ret(this_append.w,
                          Ok(remove_unreachable_port_names_by_patterns(
                                 this_append.res.val, Len(x.res.val),
                                 registry_set.registries_[k].patterns))),
                      k + 1))

\* get_all_reachable_port_names, lines 1549-1556
reachable_from_default(x) ==
    IF x.res.ok /\ registry_set.default_registry_.has
    THEN RegistryImplementation_append_all_port_names(
             x.w, registry_set.default_registry_.v, x.res.val)
    ELSE x

\* mutant of get_all_reachable_port_names
get_all_reachable_port_names_unsorted(w) ==
    reachable_from_default(reachable_from_registries(Ret(w, Ok(<<>>)), 1))

get_all_reachable_port_names(w) ==
    Bind(reachable_from_default(reachable_from_registries(Ret(w, Ok(<<>>)), 1)), LAMBDA x :
        IF x.res.ok THEN Ret(x.w, Ok(sort_unique_erase(x.res.val))) ELSE x)

\* mutant of exact_patterns
every_pattern(patterns) == patterns

\* get_all_known_reachable_port_names_no_network, lines 1584-1589: the patterns that are
\* neither empty nor end in a wildcard
exact_patterns(patterns) ==
    SelectSeq(patterns, LAMBDA package_pattern :
        ~(package_pattern = <<>> \/ package_pattern[Len(package_pattern)] = "*"))

\* get_all_known_reachable_port_names_no_network, lines 1565-1591
RECURSIVE known_from_registries(_, _)
known_from_registries(x, k) ==
    IF k > Len(registry_set.registries_) \/ ~x.res.ok
    THEN x
    ELSE Bind(RegistryImplementation_try_append_all_port_names_no_network(
                  x.w, registry_set.registries_[k].impl, x.res.val), LAMBDA maybe_append :
             IF ~maybe_append.res.ok
             THEN maybe_append
             ELSE IF maybe_append.res.val.known
             THEN known_from_registries(
                      Ret(maybe_append.w,
                          Ok(remove_unreachable_port_names_by_patterns(
                                 maybe_append.res.val.port_names, Len(x.res.val),
                                 registry_set.registries_[k].patterns))),
                      k + 1)
             ELSE known_from_registries(
                      Ret(maybe_append.w,
                          Ok(maybe_append.res.val.port_names
                             \o exact_patterns(registry_set.registries_[k].patterns))),
                      k + 1))

\* get_all_known_reachable_port_names_no_network, lines 1593-1600
known_from_default(x) ==
    IF x.res.ok /\ registry_set.default_registry_.has
    THEN Bind(RegistryImplementation_try_append_all_port_names_no_network(
                  x.w, registry_set.default_registry_.v, x.res.val), LAMBDA maybe_append :
             IF maybe_append.res.ok
             THEN Ret(maybe_append.w, Ok(maybe_append.res.val.port_names))
             ELSE maybe_append)
    ELSE x

get_all_known_reachable_port_names_no_network(w) ==
    Bind(known_from_default(known_from_registries(Ret(w, Ok(<<>>)), 1)), LAMBDA x :
        IF x.res.ok THEN Ret(x.w, Ok(sort_unique_erase(x.res.val))) ELSE x)

\* ------------------------------------------------------------------------
\* BaselineProviderImpl and VersionedPortfileProviderImpl
\* ------------------------------------------------------------------------

\* mutant of BaselineProviderImpl_get_baseline_version
BaselineProviderImpl_get_baseline_version_first_version(w, port_name) ==
    IF CacheHas(w.m_baseline_cache, port_name)
    THEN Ret(w, w.m_baseline_cache[port_name])
    ELSE Bind(baseline_for_port(w, port_name), LAMBDA b :
         Bind(IF b.res.ok /\ ~b.res.val.has THEN Ok("1.0")
              ELSE IF b.res.ok THEN Ok(b.res.val.v)
              ELSE b.res, LAMBDA version :
             Ret([b.w EXCEPT !.m_baseline_cache = CachePut(@, port_name, version)], version)))

BaselineProviderImpl_get_baseline_version(w, port_name) ==
    IF CacheHas(w.m_baseline_cache, port_name)
    THEN Ret(w, w.m_baseline_cache[port_name])
    ELSE Bind(baseline_for_port(w, port_name), LAMBDA b :
         Bind(IF b.res.ok /\ ~b.res.val.has THEN Err(<<"PortNotInBaseline", port_name>>)
              ELSE IF b.res.ok THEN Ok(b.res.val.v)
              ELSE b.res, LAMBDA version :
             Ret([b.w EXCEPT !.m_baseline_cache = CachePut(@, port_name, version)], version)))

\* the recipe stored in a git tree
RecipeAtTree(git_tree) ==
    IF git_tree = "t1" THEN [name |-> NameA, version |-> "1.0"]
    ELSE IF git_tree = "t2" THEN [name |-> NameA, version |-> "2.0"]
    ELSE [name |-> NameAB, version |-> "2.0"]

\* RegistryImplementation::get_port_entry: a handle on the port in the registry
get_port_entry(reg, name) == Ok(Some([impl |-> reg, port_name |-> name]))

\* RegistryEntry::try_load_port_required: ask the registry for the port at this version
\* and parse the recipe found there
try_load_port_required(w, ent, version) ==
    Bind(GitRegistry_get_port(
             Call(w, <<"RegistryImplementation::get_port", ent.impl, ent.port_name, version>>),
             ent.impl, [port_name |-> ent.port_name, version |-> version]), LAMBDA p :
        IF ~p.res.ok
        THEN p
        ELSE IF ~p.res.val.has
        THEN Ret(p.w, Err(<<"VersionDatabaseEntryMissing", ent.port_name, version>>))
        ELSE Ret(p.w, Ok([source_control_file |-> Some(RecipeAtTree(p.res.val.v.path[2])),
                          control_path |-> p.res.val.v.path,
                          location |-> p.res.val.v.location])))

VersionedPortfileProviderImpl_entry(w, name) ==
    IF CacheHas(w.m_entry_cache, name)
    THEN Ret(w, w.m_entry_cache[name])
    ELSE Bind(registry_for_port(name), LAMBDA reg :
         Bind(IF reg.has
              THEN (IF get_port_entry(reg.v, name).ok
                    THEN get_port_entry(reg.v, name)
                    ELSE Err(<<"PortDoesNotExist", name>>))
              ELSE Err(<<"NoRegistryForPort", name>>), LAMBDA entry :
             Ret([w EXCEPT !.m_entry_cache = CachePut(@, name, entry)], entry)))

to_version_spec(scfl) ==
    [port_name |-> scfl.source_control_file.v.name, version |-> scfl.source_control_file.v.version]

\* a load that hands the recipe on without comparing it with the version asked for
load_control_file_from_entry_unchecked(w, ent, version_spec) ==
    Bind(try_load_port_required(w, ent, version_spec.version), LAMBDA maybe_scfl :
        IF maybe_scfl.res.ok
        THEN maybe_scfl
        ELSE Ret(maybe_scfl.w,
                 Err(<<maybe_scfl.res.err, "WhileLoadingPortVersion", version_spec>>)))

\* load_control_file, lines 164-187
load_control_file_from_entry(w, ent, version_spec) ==
    Bind(try_load_port_required(w, ent, version_spec.version), LAMBDA maybe_scfl :
        IF maybe_scfl.res.ok
        THEN IF to_version_spec(maybe_scfl.res.val) = version_spec
             THEN maybe_scfl
             ELSE Ret(maybe_scfl.w,
                      Err(<<"VersionSpecMismatch", maybe_scfl.res.val.control_path, version_spec,
                            to_version_spec(maybe_scfl.res.val)>>))
        ELSE Ret(maybe_scfl.w,
                 Err(<<maybe_scfl.res.err, "WhileLoadingPortVersion", version_spec>>)))

load_control_file(w, version_spec) ==
    Bind(VersionedPortfileProviderImpl_entry(w, version_spec.port_name), LAMBDA maybe_ent :
        IF maybe_ent.res.ok
        THEN IF ~maybe_ent.res.val.has
             THEN Ret(maybe_ent.w, Err(<<"PortDoesNotExist", version_spec.port_name>>))
             ELSE load_control_file_from_entry(maybe_ent.w, maybe_ent.res.val.v, version_spec)
        ELSE maybe_ent)

\* mutant of VersionedPortfileProviderImpl_get_control_file
VersionedPortfileProviderImpl_get_control_file_retry(w, version_spec) ==
    IF CacheHas(w.m_control_cache, version_spec) /\ w.m_control_cache[version_spec].ok
    THEN Ret(w, w.m_control_cache[version_spec])
    ELSE Bind(load_control_file(w, version_spec), LAMBDA loaded :
             Ret([loaded.w EXCEPT !.m_control_cache = CachePut(@, version_spec, loaded.res)],
                 loaded.res))

VersionedPortfileProviderImpl_get_control_file(w, version_spec) ==
    IF CacheHas(w.m_control_cache, version_spec)
    THEN Ret(w, w.m_control_cache[version_spec])
    ELSE Bind(load_control_file(w, version_spec), LAMBDA loaded :
             Ret([loaded.w EXCEPT !.m_control_cache = CachePut(@, version_spec, loaded.res)],
                 loaded.res))

\* Paragraphs::load_all_registry_ports(m_registry_set): the recipe of every reachable port
\* at its baseline version, one for each port name, in the order of the names
RegistryScfl(name, version) ==
    [source_control_file |-> Some([name |-> name, version |-> version]),
     control_path |-> <<"registry", name, version>>, location |-> <<"registry">>]

\* load_all_control_files, lines 212-213; x is the pair (world, out)
versioned_emplace(x, scfl) ==
    Bind(Emplace(x.w.m_control_cache, to_version_spec(scfl), Ok(scfl)), LAMBDA cache :
        IF ~cache[to_version_spec(scfl)].ok
        THEN [w |-> [x.w EXCEPT !.m_control_cache = cache, !.crashed = TRUE], res |-> x.res]
        ELSE [w |-> [x.w EXCEPT !.m_control_cache = cache],
              res |-> Emplace(x.res, to_version_spec(scfl).port_name,
                              cache[to_version_spec(scfl)].val)])

RECURSIVE versioned_emplace_all(_, _, _)
versioned_emplace_all(x, all_ports, k) ==
    IF k > Len(all_ports) \/ x.w.crashed
    THEN x
    ELSE versioned_emplace_all(versioned_emplace(x, all_ports[k]), all_ports, k + 1)

\* all_ports is what Paragraphs::load_all_registry_ports returned; the result is the out map
VersionedPortfileProviderImpl_load_all_control_files(w, out, all_ports) ==
    versioned_emplace_all(
        Ret(Call(w, <<"Paragraphs::load_all_registry_ports">>), out), all_ports, 1)

\* ------------------------------------------------------------------------
\* PathsPortFileProvider
\* ------------------------------------------------------------------------

\* get_control_file_required, lines 62-70; each provider consulted is logged with its answer
get_control_file_non_overlay(w, spec) ==
    Bind(BaselineProviderImpl_get_baseline_version(w, spec), LAMBDA maybe_baseline :
    Bind(Call(maybe_baseline.w, <<"m_baseline->get_baseline_version", spec, maybe_baseline.res>>),
         LAMBDA w1 :
        IF maybe_baseline.res.ok
        THEN Bind(VersionedPortfileProviderImpl_get_control_file(
                      w1, [port_name |-> spec, version |-> maybe_baseline.res.val]), LAMBDA v :
                 Ret(Call(v.w, <<"m_versioned->get_control_file",
                                 [port_name |-> spec, version |-> maybe_baseline.res.val], v.res>>),
                     v.res))
        ELSE Ret(w1, maybe_baseline.res)))

\* mutant of PathsPortFileProvider_get_control_file_required
PathsPortFileProvider_get_control_file_required_registry_first(w, spec) ==
    Bind(OverlayProvider_get_control_file(w, spec), LAMBDA maybe_scfl :
    Bind(Call(maybe_scfl.w, <<"m_overlay->get_control_file", spec, maybe_scfl.res>>), LAMBDA w1 :
    Bind(get_control_file_non_overlay(w1, spec), LAMBDA r :
        IF r.res.ok THEN r ELSE Ret(r.w, maybe_scfl.res))))

PathsPortFileProvider_get_control_file_required(w, spec) ==
    Bind(OverlayProvider_get_control_file(w, spec), LAMBDA maybe_scfl :
    Bind(Call(maybe_scfl.w, <<"m_overlay->get_control_file", spec, maybe_scfl.res>>), LAMBDA w1 :
        IF maybe_scfl.res.ok
        THEN IF maybe_scfl.res.val.source_control_file.has
             THEN Ret(w1, maybe_scfl.res)
             ELSE get_control_file_non_overlay(w1, spec)
        ELSE Ret(w1, maybe_scfl.res)))

\* Util::fmap over a std::map: the values in the order of the keys
RECURSIVE fmap_second(_)
fmap_second(m) ==
    IF DOMAIN m = {}
    THEN <<>>
    ELSE Bind(CHOOSE k \in DOMAIN m : \A j \in DOMAIN m \ {k} : StringLess(k, j), LAMBDA k :
             <<m[k]>> \o fmap_second([j \in DOMAIN m \ {k} |-> m[j]]))

\* mutant of PathsPortFileProvider_load_all_control_files
PathsPortFileProvider_load_all_control_files_registry_first(w, all_ports) ==
    Bind(VersionedPortfileProviderImpl_load_all_control_files(w, EmptyCache, all_ports), LAMBDA v :
        IF v.w.crashed
        THEN Ret(v.w, <<>>)
        ELSE Bind(OverlayProvider_load_all_control_files(v.w, v.res), LAMBDA o :
                 Ret(o.w, IF o.w.crashed THEN <<>> ELSE fmap_second(o.res))))

PathsPortFileProvider_load_all_control_files(w, all_ports) ==
    Bind(OverlayProvider_load_all_control_files(w, EmptyCache), LAMBDA o :
        IF o.w.crashed
        THEN Ret(o.w, <<>>)
        ELSE Bind(VersionedPortfileProviderImpl_load_all_control_files(o.w, o.res, all_ports),
                  LAMBDA v : Ret(v.w, IF v.w.crashed THEN <<>> ELSE fmap_second(v.res))))

\* ------------------------------------------------------------------------
\* State machine of the lock file and the git registries
\* ------------------------------------------------------------------------

\* the ports and versions asked of the git registries
LockPorts == {NameA}
VersionSpecs == [port_name : LockPorts, version : Versions]

LoadedEntry(key) == [repo |-> key[1], reference |-> key[2], commit_id |-> "c1", stale |-> TRUE]

\* lock files the process can start from: every loaded entry is stale
LoadedLockFiles ==
    {<<>>, <<LoadedEntry(KeyMain)>>, <<LoadedEntry(KeyDev)>>,
     <<LoadedEntry(KeyDev), LoadedEntry(KeyMain)>>}

TreeStatuses ==
    {[c \in Commits |-> "ok"],
     [c \in Commits |-> IF c = "c1" THEN "no_versions" ELSE "ok"]}

\* the remote: "main" is where the lock file left it, has moved on, or cannot be reached
RemoteStates ==
    {r \in [Keys -> Commits \cup {Unreachable}] : r[KeyDev] # "c1"}

FetchCalls(calls, key) ==
    {i \in 1..Len(calls) : calls[i][1] = "git_fetch_from_remote_registry"
                           /\ calls[i][2] = key[1] /\ calls[i][3] = key[2]}

\* a registry set with no pattern-routed registries
DefaultOnly(g) == [registries_ |-> <<>>, default_registry_ |-> Some(g)]

\* the baseline and versioned providers have been asked nothing yet
NoProviders ==
    /\ m_baseline_cache = EmptyCache
    /\ m_entry_cache = EmptyCache
    /\ m_control_cache = EmptyCache

\* the process runs without a manifest provider
NoManifest == m_manifest_scf_and_location = Scfl(NameA, "2.0", <<"manifest">>)

\* the filesystem registries list no port
NoFilesystem == fsVersions = [f \in FsRegs |-> Ok(<<>>)]

\* nothing has been asked of the builtin and filesystem registries, whose directories
\* hold no port
NoCheckout == checkout = CheckoutStart

NoBuiltin ==
    /\ m_scfs = EmptyCache
    /\ m_versions = EmptyCache
    /\ m_entries = EmptyCache
    /\ disk = EmptyDisk
    /\ get_port_results = EmptyCache
    /\ NoCheckout

\* the state after an operation that returned r
Finish(op, args, r) ==
    /\ fetchAttempts' = [k \in Keys |-> fetchAttempts[k] + Cardinality(FetchCalls(r.w.calls, k))]
    /\ \A k \in Keys : fetchAttempts'[k] <= MaxFetches
    /\ fetchSuccesses' =
           [k \in Keys |-> fetchSuccesses[k]
                            + Cardinality({i \in FetchCalls(r.w.calls, k) : r.w.calls[i][4]})]
    /\ refreshAttempts' =
           [k \in Keys |-> refreshAttempts[k]
                            + Cardinality({i \in FetchCalls(r.w.calls, k) :
                                              r.w.calls[i][5] = "ensure_up_to_date"})]
    /\ lockdata' = r.w.lockdata
    /\ modified' = r.w.modified
    /\ git' = r.w.git
    /\ gitObjects' = r.w.gitObjects
    /\ metrics' = r.w.metrics
    /\ crashed' = r.w.crashed
    /\ m_overlay_cache' = r.w.m_overlay_cache
    /\ m_baseline_cache' = r.w.m_baseline_cache
    /\ m_entry_cache' = r.w.m_entry_cache
    /\ m_control_cache' = r.w.m_control_cache
    /\ m_scfs' = r.w.m_scfs
    /\ m_versions' = r.w.m_versions
    /\ m_entries' = r.w.m_entries
    /\ last' = [op |-> op, args |-> args, res |-> r.res, calls |-> r.w.calls]

\* nothing outside the process changes
OwnDiskUnchanged == UNCHANGED <<remote, treeStatus, badTrees, baselineSource, loadedLock, overlays,
                               registry_set, m_manifest_scf_and_location, fsVersions, disk>>

\* and no process is checking the baseline out
DiskUnchanged == OwnDiskUnchanged /\ UNCHANGED checkout

EnvUnchanged == DiskUnchanged /\ UNCHANGED get_port_results

InitLock ==
    /\ lockdata \in LoadedLockFiles
    /\ loadedLock = lockdata
    /\ modified = FALSE
    /\ git = [g \in GitRegs |-> GitRegistryInit]
    /\ baselineSource \in {"local", "with_ref", "never"}
    /\ gitObjects = IF baselineSource = "local" THEN {BaselineSha} ELSE {}
    /\ metrics = {}
    /\ crashed = FALSE
    /\ remote \in RemoteStates
    /\ treeStatus \in TreeStatuses
    /\ badTrees = {}
    /\ overlays = <<>>
    /\ registry_set = DefaultOnly("g1")
    /\ m_overlay_cache = EmptyCache
    /\ NoProviders
    /\ NoManifest
    /\ NoFilesystem
    /\ NoBuiltin
    /\ fetchAttempts = [k \in Keys |-> 0]
    /\ fetchSuccesses = [k \in Keys |-> 0]
    /\ refreshAttempts = [k \in Keys |-> 0]
    /\ last = [op |-> "start", args |-> <<>>, res |-> Ok(Unit), calls |-> <<>>]

LockFileGetOrFetch ==
    \E key \in Keys :
        /\ ~crashed
        /\ Finish("LockFile::get_or_fetch", key, get_or_fetch(World, key[1], key[2]))
        /\ EnvUnchanged

EntryEnsureUpToDate ==
    \E entry \in 1..Len(lockdata) :
        /\ ~crashed
        /\ Finish("LockFile::Entry::ensure_up_to_date", entry, ensure_up_to_date(World, entry))
        /\ EnvUnchanged

GitGetPort ==
    \E g \in GitRegs, spec \in VersionSpecs :
        /\ ~crashed
        /\ Finish("GitRegistry::get_port", <<g, spec>>, GitRegistry_get_port(World, g, spec))
        /\ EnvUnchanged

GitGetAllPortVersions ==
    \E g \in GitRegs, port_name \in LockPorts :
        /\ ~crashed
        /\ Finish("GitRegistry::get_all_port_versions", <<g, port_name>>,
                  GitRegistry_get_all_port_versions(World, g, port_name))
        /\ EnvUnchanged

GitGetBaselineVersion ==
    \E g \in GitRegs, port_name \in LockPorts :
        /\ ~crashed
        /\ Finish("GitRegistry::get_baseline_version", <<g, port_name>>,
                  GitRegistry_get_baseline_version(World, g, port_name))
        /\ EnvUnchanged

GitAppendAllPortNames ==
    \E g \in GitRegs :
        /\ ~crashed
        /\ Finish("GitRegistry::append_all_port_names", <<g>>,
                  GitRegistry_append_all_port_names(World, g, <<>>))
        /\ EnvUnchanged

NextLock ==
    \/ LockFileGetOrFetch
    \/ EntryEnsureUpToDate
    \/ GitGetPort
    \/ GitGetAllPortVersions
    \/ GitGetBaselineVersion
    \/ GitAppendAllPortNames

SpecLock == InitLock /\ [][NextLock]_vars

\* the same process when only the registries drive the lock file
NextGit ==
    \/ GitGetPort
    \/ GitGetAllPortVersions
    \/ GitGetBaselineVersion
    \/ GitAppendAllPortNames

SpecGit == InitLock /\ [][NextGit]_vars

\* ------------------------------------------------------------------------
\* Properties of the lock file and the git registry
\* ------------------------------------------------------------------------

NoFetch(calls) == \A i \in 1..Len(calls) : calls[i][1] # "git_fetch_from_remote_registry"

KeyOf(g) == <<GitConfig[g].repo, GitConfig[g].reference>>

\* the version database at the commit a stale lock entry pins lists spec
StaleDbHas(g, spec) ==
    LET i == LockFind(lockdata, GitConfig[g].repo, GitConfig[g].reference)
    IN  /\ i # 0
        /\ lockdata[i].stale
        /\ treeStatus[lockdata[i].commit_id] = "ok"
        /\ LET file == VersionsFileAt(lockdata[i].commit_id, spec.port_name)
           IN  /\ file.kind = "ok"
               /\ \E j \in 1..Len(file.entries) : file.entries[j].version = spec.version

StaleDbTree(g, spec) ==
    LET i == LockFind(lockdata, GitConfig[g].repo, GitConfig[g].reference)
        file == VersionsFileAt(lockdata[i].commit_id, spec.port_name)
        j == CHOOSE j \in 1..Len(file.entries) :
                 /\ file.entries[j].version = spec.version
                 /\ \A k \in 1..(j - 1) : file.entries[k].version # spec.version
    IN  file.entries[j].git_tree

\* C1: get_port on a git registry whose lock entry is stale and whose stale
\* version database lists (name, version) returns that entry's tree without
\* any fetch, and leaves the lock data (stale flag, commit_id) and the
\* modified flag as they were.
C1_StaleHitNeedsNoFetch ==
    [][\A g \in GitRegs, spec \in VersionSpecs :
          (last'.op = "GitRegistry::get_port" /\ last'.args = <<g, spec>> /\ StaleDbHas(g, spec))
          => /\ NoFetch(last'.calls)
             /\ lockdata' = lockdata
             /\ modified' = modified
             /\ last'.res.ok
             /\ last'.res.val.has
             /\ last'.res.val.v.location = <<"git+", GitConfig[g].repo, "@", StaleDbTree(g, spec)>>]_vars

C1_Witness ==
    /\ last.op = "GitRegistry::get_port"
    /\ last.res.ok
    /\ last.res.val.has
    /\ NoFetch(last.calls)
    /\ remote[KeyMain] = "c2"
    /\ \E i \in 1..Len(lockdata) : lockdata[i].reference = "main" /\ lockdata[i].stale
    /\ ~modified

\* C2 as stated: for no (repo, reference) is the remote fetch that refreshes
\* its lock entry performed more than once.
C2_AtMostOneFetch == \A k \in Keys : refreshAttempts[k] <= 1

\* C2 amended: for every (repo, reference) at most one fetch succeeds, so the
\* lock entry is refreshed at most once; a fetch that failed may be repeated.
C2_AtMostOneRefresh == \A k \in Keys : fetchSuccesses[k] <= 1

C2_Witness ==
    /\ fetchSuccesses[KeyMain] = 1
    /\ \A g \in GitRegs : git[g].m_versions_tree.set /\ git[g].m_baseline.set
    /\ loadedLock # <<>>

\* C3: get_or_fetch returns an existing entry without a fetch and without
\* changing the lock data or the modified flag; for an absent entry it makes
\* exactly one fetch and, when that succeeds, inserts {fetched commit,
\* stale = false} and sets modified.
C3_GetOrFetch ==
    [][\A key \in Keys :
          (last'.op = "LockFile::get_or_fetch" /\ last'.args = key)
          => LET it == LockFind(lockdata, key[1], key[2])
             IN  IF it # 0
                 THEN /\ last'.calls = <<>>
                      /\ lockdata' = lockdata
                      /\ modified' = modified
                      /\ last'.res = Ok(it)
                 ELSE /\ Len(last'.calls) = 1
                      /\ last'.calls[1][1] = "git_fetch_from_remote_registry"
                      /\ <<last'.calls[1][2], last'.calls[1][3]>> = key
                      /\ remote[key] # Unreachable
                         => /\ lockdata' = Append(lockdata,
                                                  [repo |-> key[1], reference |-> key[2],
                                                   commit_id |-> remote[key], stale |-> FALSE])
                            /\ modified'
                            /\ last'.res = Ok(Len(lockdata'))]_vars

C3_Witness ==
    /\ last.op = "LockFile::get_or_fetch"
    /\ last.calls # <<>>
    /\ last.res.ok
    /\ lockdata[last.res.val].commit_id = remote[last.args]
    /\ ~lockdata[last.res.val].stale
    /\ modified
    /\ Len(lockdata) = 2

\* C4: ensure_up_to_date on a stale entry fetches and, on success, overwrites
\* commit_id, clears stale and sets modified; on an entry that is not stale
\* it fetches nothing and changes nothing; no other entry is ever changed.
C4_EnsureUpToDate ==
    [][\A entry \in 1..Len(lockdata) :
          (last'.op = "LockFile::Entry::ensure_up_to_date" /\ last'.args = entry)
          => LET key == <<lockdata[entry].repo, lockdata[entry].reference>>
             IN  /\ Len(lockdata') = Len(lockdata)
                 /\ \A i \in 1..Len(lockdata) : i # entry => lockdata'[i] = lockdata[i]
                 /\ IF lockdata[entry].stale
                    THEN /\ Len(last'.calls) = 1
                         /\ last'.calls[1][1] = "git_fetch_from_remote_registry"
                         /\ <<last'.calls[1][2], last'.calls[1][3]>> = key
                         /\ remote[key] # Unreachable
                            => /\ lockdata'[entry] = [lockdata[entry] EXCEPT
                                                         !.commit_id = remote[key],
                                                         !.stale = FALSE]
                               /\ modified'
                               /\ last'.res = Ok(Unit)
                    ELSE /\ last'.calls = <<>>
                         /\ lockdata' = lockdata
                         /\ modified' = modified
                         /\ last'.res = Ok(Unit)]_vars

C4_Witness ==
    /\ last.op = "LockFile::Entry::ensure_up_to_date"
    /\ last.calls # <<>>
    /\ last.res.ok
    /\ lockdata[last.args].commit_id = "c2"
    /\ ~lockdata[last.args].stale
    /\ \E i \in 1..Len(lockdata) : i # last.args /\ lockdata[i].stale
    /\ modified

\* C5: when the remote fetch fails inside get_or_fetch or ensure_up_to_date,
\* the backend's error is what the caller gets, and the lock data and the
\* modified flag are left as they were.
C5_FetchFailureChangesNothing ==
    [][(/\ last'.op \in {"LockFile::get_or_fetch", "LockFile::Entry::ensure_up_to_date"}
        /\ \E i \in 1..Len(last'.calls) :
               last'.calls[i][1] = "git_fetch_from_remote_registry" /\ ~last'.calls[i][4])
       => /\ last'.res = Err(<<"GitFetchFailed", last'.calls[1][2], last'.calls[1][3]>>)
          /\ lockdata' = lockdata
          /\ modified' = modified]_vars

C5_Witness ==
    /\ last.op \in {"LockFile::get_or_fetch", "LockFile::Entry::ensure_up_to_date"}
    /\ ~last.res.ok
    /\ last.calls # <<>>
    /\ lockdata = loadedLock
    /\ ~modified

\* C6: whenever the lock data differs from what was loaded at startup the
\* modified flag is set, and once set the flag is never cleared.
C6_ModifiedTracksMutations ==
    /\ [](lockdata # loadedLock => modified)
    /\ [][modified => modified']_vars

C6_Witness ==
    /\ lockdata # loadedLock
    /\ Len(lockdata) = Len(loadedLock)
    /\ modified

\* the lock file loaded at startup pins the registry to a commit whose version database
\* can be read and lists spec
LoadedDbHas(g, spec) ==
    LET i == LockFind(loadedLock, GitConfig[g].repo, GitConfig[g].reference)
    IN  /\ i # 0
        /\ treeStatus[loadedLock[i].commit_id] = "ok"
        /\ LET file == VersionsFileAt(loadedLock[i].commit_id, spec.port_name)
           IN  /\ file.kind = "ok"
               /\ \E j \in 1..Len(file.entries) : file.entries[j].version = spec.version

\* C22: while the remote cannot be reached, get_port on a git registry whose loaded lock
\* entry pins a version database listing (name, version) returns the port, whatever
\* queries and failed refreshes of the lock entry came before
C22_StaleEntryStillResolves ==
    [][\A g \in GitRegs, spec \in VersionSpecs :
          (/\ last'.op = "GitRegistry::get_port"
           /\ last'.args = <<g, spec>>
           /\ remote[KeyOf(g)] = Unreachable
           /\ LoadedDbHas(g, spec))
          => /\ last'.res.ok
             /\ last'.res.val.has]_vars

\* the port resolved after a refresh of the lock entry had failed
C22_Witness ==
    /\ last.op = "GitRegistry::get_port"
    /\ remote[KeyMain] = Unreachable
    /\ refreshAttempts[KeyMain] >= 1
    /\ fetchSuccesses[KeyMain] = 0
    /\ git[last.args[1]].m_versions_tree.set
    /\ last.res.ok
    /\ last.res.val.has
    /\ NoFetch(last.calls)

\* the (repo, reference) pair the operation recorded in l works on; lockdata is the
\* lock data before the operation
OperatedKey(l) ==
    IF l.op = "LockFile::get_or_fetch" THEN l.args
    ELSE IF l.op = "LockFile::Entry::ensure_up_to_date"
    THEN <<lockdata[l.args].repo, lockdata[l.args].reference>>
    ELSE KeyOf(l.args[1])

\* C39: the lock data holds at most one entry per (repo, reference) pair at every
\* moment, and an operation on one pair, called directly or by a git registry, leaves
\* the entries of every other pair as they were
C39_OneEntryPerReference ==
    /\ [](\A i, j \in 1..Len(lockdata) :
             (lockdata[i].repo = lockdata[j].repo
              /\ lockdata[i].reference = lockdata[j].reference) => i = j)
    /\ [][/\ Len(lockdata') >= Len(lockdata)
          /\ \A i \in 1..Len(lockdata) :
                 <<lockdata[i].repo, lockdata[i].reference>> # OperatedKey(last')
                 => lockdata'[i] = lockdata[i]]_vars

\* the entry of "main" was refreshed to another commit while the loaded entry of "dev",
\* under the same repo, is as the lock file had it
C39_Witness ==
    /\ last.op \in {"LockFile::get_or_fetch", "LockFile::Entry::ensure_up_to_date"}
    /\ Len(lockdata) = 2
    /\ \E i, j \in 1..2 :
           /\ lockdata[i] = LoadedEntry(KeyDev)
           /\ lockdata[j].repo = Repo1
           /\ lockdata[j].reference = "main"
           /\ lockdata[j].commit_id = "c2"
           /\ ~lockdata[j].stale
    /\ fetchSuccesses[KeyMain] >= 1
    /\ modified

\* C34: over any sequence of lock file and git registry operations, get_stale_versions
\* is entered only while the lock entry is stale: its fatal check "Non-stale stale
\* versions", the only fatal check of these operations, never fires.
C34_StaleVersionsOnlyWhenStale == ~crashed

\* a registry that entered get_stale_versions while its lock entry was stale ran get_port
\* again after the entry had been refreshed
C34_Witness ==
    /\ last.op = "GitRegistry::get_port"
    /\ git[last.args[1]].m_stale_versions_tree.set
    /\ LockFind(lockdata, KeyOf(last.args[1])[1], KeyOf(last.args[1])[2]) # 0
    /\ ~lockdata[LockFind(lockdata, KeyOf(last.args[1])[1], KeyOf(last.args[1])[2])].stale
    /\ NoFetch(last.calls)
    /\ ~crashed

\* the result of get_all_port_versions lists version
ListsVersion(res, version) ==
    /\ res.ok
    /\ res.val.has
    /\ \E i \in 1..Len(res.val.v) : res.val.v[i] = version

ReturnsPort(res) == res.ok /\ res.val.has

\* the lock entry of registry g, in world w, is present and not stale
EntryFresh(w, g) ==
    LET i == LockFind(w.lockdata, GitConfig[g].repo, GitConfig[g].reference)
    IN  i # 0 /\ ~w.lockdata[i].stale

\* C36 as stated: whenever get_port(P, V) on a git registry returns a port, a
\* get_all_port_versions(P) of the same process, called after it or before it, returns
\* a list that holds V
C36_PortIsListed ==
    [][\A g \in GitRegs, spec \in VersionSpecs :
          /\ (/\ last'.op = "GitRegistry::get_port"
              /\ last'.args = <<g, spec>>
              /\ ReturnsPort(last'.res))
             => ListsVersion(GitRegistry_get_all_port_versions(World', g, spec.port_name).res,
                             spec.version)
          /\ (/\ last'.op = "GitRegistry::get_all_port_versions"
              /\ last'.args = <<g, spec.port_name>>
              /\ ReturnsPort(GitRegistry_get_port(World', g, spec).res))
             => ListsVersion(last'.res, spec.version)]_vars

\* C36, amended: whenever get_port(P, V) on a git registry returns a port and leaves the
\* registry's lock entry not stale (the port came from the live version database), a
\* get_all_port_versions(P) of the same process, called after it or before it, returns
\* a list that holds V; a port found in the stale database carries no such guarantee
C36_LivePortIsListed ==
    [][\A g \in GitRegs, spec \in VersionSpecs :
          /\ (/\ last'.op = "GitRegistry::get_port"
              /\ last'.args = <<g, spec>>
              /\ ReturnsPort(last'.res)
              /\ EntryFresh(World', g))
             => ListsVersion(GitRegistry_get_all_port_versions(World', g, spec.port_name).res,
                             spec.version)
          /\ (/\ last'.op = "GitRegistry::get_all_port_versions"
              /\ last'.args = <<g, spec.port_name>>
              /\ ReturnsPort(GitRegistry_get_port(World', g, spec).res)
              /\ EntryFresh(GitRegistry_get_port(World', g, spec).w, g))
             => ListsVersion(last'.res, spec.version)]_vars

\* get_port found version 2.0 in the live database, after a refresh of the lock entry
C36_Witness ==
    /\ last.op = "GitRegistry::get_port"
    /\ last.args[2].version = "2.0"
    /\ ReturnsPort(last.res)
    /\ EntryFresh(World, last.args[1])
    /\ ~NoFetch(last.calls)
    /\ ListsVersion(GitRegistry_get_all_port_versions(World, last.args[1],
                                                      last.args[2].port_name).res, "2.0")

\* ------------------------------------------------------------------------
\* State machine of the overlay provider
\* ------------------------------------------------------------------------

\* a process with overlay directories configured and nothing asked of it yet
InitOverlay ==
    /\ lockdata = <<>>
    /\ loadedLock = lockdata
    /\ modified = FALSE
    /\ git = [g \in GitRegs |-> GitRegistryInit]
    /\ baselineSource = "local"
    /\ gitObjects = {BaselineSha}
    /\ metrics = {}
    /\ crashed = FALSE
    /\ remote = [k \in Keys |-> "c2"]
    /\ treeStatus = [c \in Commits |-> "ok"]
    /\ badTrees = {}
    /\ overlays \in OverlayLayouts
    /\ registry_set = DefaultOnly("g1")
    /\ m_overlay_cache = EmptyCache
    /\ NoProviders
    /\ NoManifest
    /\ NoFilesystem
    /\ NoBuiltin
    /\ fetchAttempts = [k \in Keys |-> 0]
    /\ fetchSuccesses = [k \in Keys |-> 0]
    /\ refreshAttempts = [k \in Keys |-> 0]
    /\ last = [op |-> "start", args |-> <<>>, res |-> Ok(Unit), calls |-> <<>>]

OverlayGetControlFile ==
    \E port_name \in OverlayNames :
        /\ ~crashed
        /\ Finish("OverlayProviderImpl::get_control_file", port_name,
                  OverlayProvider_get_control_file(World, port_name))
        /\ EnvUnchanged

OverlayLoadAllControlFiles ==
    /\ ~crashed
    /\ Finish("OverlayProviderImpl::load_all_control_files", <<>>,
              OverlayProvider_load_all_control_files(World, EmptyCache))
    /\ EnvUnchanged

NextOverlay ==
    \/ OverlayGetControlFile
    \/ OverlayLoadAllControlFiles

SpecOverlay == InitOverlay /\ [][NextOverlay]_vars

\* ------------------------------------------------------------------------
\* Properties of the overlay provider
\* ------------------------------------------------------------------------

\* every directory can be read and every port directory declares the name of its directory
CleanLayout ==
    \A i \in 1..Len(overlays) :
        /\ overlays[i].self # Broken
        /\ \A n \in OverlayNames : overlays[i].subs[n] \in {NotAPort, PortDir(n)}

\* overlay i provides n: it is a port named n, or its subdirectory n is
Provides(i, n) ==
    \/ overlays[i].self = PortDir(n)
    \/ overlays[i].self = NotAPort /\ overlays[i].subs[n] = PortDir(n)

ProvidedPort(i, n) ==
    IF overlays[i].self = PortDir(n) THEN Scfl(n, "1.0", <<i>>) ELSE Scfl(n, "1.0", <<i, n>>)

Providers(n) == {i \in 1..Len(overlays) : Provides(i, n)}

Earliest(n) == CHOOSE i \in Providers(n) : \A j \in Providers(n) : i <= j

\* C9: get_control_file(name) returns the port of the earliest overlay, in configured
\* order, that provides name, whatever get_control_file and load_all_control_files
\* calls came before it
C9_EarliestOverlayAnswers ==
    [][(/\ last'.op = "OverlayProviderImpl::get_control_file"
        /\ CleanLayout
        /\ Providers(last'.args) # {})
       => last'.res = Ok(ProvidedPort(Earliest(last'.args), last'.args))]_vars

\* C10: after load_all_control_files, a name that two overlays provide is reported,
\* in the out map and in the overlay cache, with the port of the earlier overlay
C10_EarlierOverlayWins ==
    [][(/\ last'.op = "OverlayProviderImpl::load_all_control_files"
        /\ CleanLayout
        /\ ~crashed')
       => \A n \in OverlayNames :
              Cardinality(Providers(n)) >= 2
              => /\ n \in DOMAIN last'.res
                 /\ last'.res[n] = ProvidedPort(Earliest(n), n)
                 /\ m_overlay_cache'[n] = Ok(ProvidedPort(Earliest(n), n))]_vars

\* overlay i sends the search for n on to the next overlay: it is a port of another name,
\* or a directory of ports without a subdirectory n that is a port
PassesOn(i, n) ==
    \/ overlays[i].self \in {PortDir(m) : m \in OverlayNames \ {n}}
    \/ overlays[i].self = NotAPort /\ overlays[i].subs[n] = NotAPort

\* the overlays where the search for n ends at a subdirectory n declaring another name
MismatchAt(n) ==
    {i \in 1..Len(overlays) :
        /\ overlays[i].self = NotAPort
        /\ overlays[i].subs[n] \in {PortDir(m) : m \in OverlayNames \ {n}}
        /\ \A j \in 1..(i - 1) : PassesOn(j, n)}

\* C28: when the search for name reaches an overlay that is not a port and whose
\* subdirectory name holds a recipe declaring another name, get_control_file(name)
\* returns the MismatchedNames error
C28_MismatchedNamesSurface ==
    [][(/\ last'.op = "OverlayProviderImpl::get_control_file"
        /\ MismatchAt(last'.args) # {})
       => /\ ~last'.res.ok
          /\ last'.res.err[1] = "MismatchedNames"]_vars

\* ------------------------------------------------------------------------
\* State machine of the paths provider
\* ------------------------------------------------------------------------

\* the registry sets of the process: default only, none at all, an exact pattern in front
\* of the default, a wildcard pattern and no default
RegistrySets ==
    {DefaultOnly("g1"),
     [registries_ |-> <<>>, default_registry_ |-> None],
     [registries_ |-> <<[patterns |-> <<NameA>>, impl |-> "g2"]>>,
      default_registry_ |-> Some("g1")],
     [registries_ |-> <<[patterns |-> <<(<<"b", "*">>)>>, impl |-> "g1"]>>,
      default_registry_ |-> None]}

InitPaths ==
    /\ lockdata \in {<<>>, <<LoadedEntry(KeyMain)>>}
    /\ loadedLock = lockdata
    /\ modified = FALSE
    /\ git = [g \in GitRegs |-> GitRegistryInit]
    /\ baselineSource \in {"local", "never"}
    /\ gitObjects = IF baselineSource = "local" THEN {BaselineSha} ELSE {}
    /\ metrics = {}
    /\ crashed = FALSE
    /\ remote \in {r \in RemoteStates : r[KeyDev] = "c2"}
    /\ treeStatus = [c \in Commits |-> "ok"]
    /\ badTrees = {}
    /\ overlays \in {l \in OverlayLayouts : Len(l) <= 1}
    /\ registry_set \in RegistrySets
    /\ m_overlay_cache = EmptyCache
    /\ NoProviders
    /\ NoManifest
    /\ NoFilesystem
    /\ NoBuiltin
    /\ fetchAttempts = [k \in Keys |-> 0]
    /\ fetchSuccesses = [k \in Keys |-> 0]
    /\ refreshAttempts = [k \in Keys |-> 0]
    /\ last = [op |-> "start", args |-> <<>>, res |-> Ok(Unit), calls |-> <<>>]

PathsGetControlFile ==
    \E spec \in OverlayNames :
        /\ ~crashed
        /\ Finish("PathsPortFileProvider::get_control_file_required", spec,
                  PathsPortFileProvider_get_control_file_required(World, spec))
        /\ EnvUnchanged

\* what Paragraphs::load_all_registry_ports can return: one recipe for each of some of the
\* names the registry set routes to a registry, in the order of the names
RegistryPorts ==
    {l \in UNION {[1..n -> {RegistryScfl(p, v) : p \in OverlayNames, v \in Versions}] :
               n \in 0..Cardinality(OverlayNames)} :
        /\ \A i \in 1..Len(l) : registry_for_port(to_name(l[i])).has
        /\ \A i \in 1..(Len(l) - 1) : StringLess(to_name(l[i]), to_name(l[i + 1]))}

PathsLoadAllControlFiles ==
    \E all_ports \in RegistryPorts :
        /\ ~crashed
        /\ Finish("PathsPortFileProvider::load_all_control_files", all_ports,
                  PathsPortFileProvider_load_all_control_files(World, all_ports))
        /\ EnvUnchanged

NextPaths ==
    \/ PathsGetControlFile
    \/ OverlayLoadAllControlFiles
    \/ PathsLoadAllControlFiles

SpecPaths == InitPaths /\ [][NextPaths]_vars

\* ------------------------------------------------------------------------
\* Properties of the paths provider
\* ------------------------------------------------------------------------

\* what the overlay provider answers for name in the current state
OverlayAnswer(name) == OverlayProvider_get_control_file(World, name).res

OnlyOverlayConsulted(calls) ==
    \A i \in 1..Len(calls) : calls[i][1] = "m_overlay->get_control_file"

Consulted(calls, provider) == \E i \in 1..Len(calls) : calls[i][1] = provider

\* the registry name is routed to answers that its baseline has no entry for name
RoutedBaselineMissing(name) ==
    /\ registry_for_port(name).has
    /\ GitRegistry_get_baseline_version(World, registry_for_port(name).v, name).res = Ok(None)

\* C7: a real recipe from the overlay provider is the result of get_control_file, with no
\* baseline provider, versioned provider or registry consulted and the lock file untouched;
\* the baseline and versioned providers are consulted only after a null recipe from the
\* overlay, the versioned one for exactly (name, baseline version)
C7_OverlayRecipeWins ==
    [][last'.op = "PathsPortFileProvider::get_control_file_required"
       => /\ (OverlayAnswer(last'.args).ok
              /\ OverlayAnswer(last'.args).val.source_control_file.has)
             => /\ last'.res = OverlayAnswer(last'.args)
                /\ OnlyOverlayConsulted(last'.calls)
                /\ lockdata' = lockdata
                /\ modified' = modified
          /\ ~OnlyOverlayConsulted(last'.calls) => OverlayAnswer(last'.args) = Ok(NullScfl)
          /\ \A i \in 1..Len(last'.calls) :
                 last'.calls[i][1] = "m_versioned->get_control_file"
                 => /\ last'.calls[i][2].port_name = last'.args
                    /\ \E j \in 1..(i - 1) :
                           last'.calls[j] = <<"m_baseline->get_baseline_version", last'.args,
                                              Ok(last'.calls[i][2].version)>>]_vars

\* an overlay port answered while the default registry has the same port in its baseline
C7_Witness ==
    /\ last.op = "PathsPortFileProvider::get_control_file_required"
    /\ last.args = NameA
    /\ last.res.ok
    /\ last.res.val.source_control_file.has
    /\ OnlyOverlayConsulted(last.calls)
    /\ registry_set = DefaultOnly("g1")
    /\ baselineSource = "local"

\* C8: get_control_file returns the overlay provider's error with no baseline or versioned
\* provider consulted, and returns PortNotInBaseline with no versioned provider consulted
\* when the registry the name is routed to has no baseline entry for it
C8_ErrorsSurface ==
    [][last'.op = "PathsPortFileProvider::get_control_file_required"
       => /\ ~OverlayAnswer(last'.args).ok
             => /\ last'.res = OverlayAnswer(last'.args)
                /\ OnlyOverlayConsulted(last'.calls)
          /\ (OverlayAnswer(last'.args) = Ok(NullScfl) /\ RoutedBaselineMissing(last'.args))
             => /\ last'.res = Err(<<"PortNotInBaseline", last'.args>>)
                /\ ~Consulted(last'.calls, "m_versioned->get_control_file")]_vars

\* the baseline of the routed registry was read and has no entry for the port
C8_Witness ==
    /\ last.op = "PathsPortFileProvider::get_control_file_required"
    /\ last.res = Err(<<"PortNotInBaseline", last.args>>)
    /\ Consulted(last.calls, "git_show_from_remote_registry")

\* the names of the recipes of a list
NamesOf(l) == {to_name(l[i]) : i \in 1..Len(l)}

\* what the overlay provider reports in the current state
OverlayOut == OverlayProvider_load_all_control_files(World, EmptyCache).res

\* C13: load_all_control_files returns one entry for each port name that the overlay
\* provider or a registry reports, and the entry of a name that the overlay provider
\* reports is the overlay provider's, also when a registry reports the name
C13_OverlayEntryWins ==
    [][(/\ last'.op = "PathsPortFileProvider::load_all_control_files"
        /\ CleanLayout
        /\ ~crashed')
       => /\ NamesOf(last'.res) = DOMAIN OverlayOut \cup NamesOf(last'.args)
          /\ Len(last'.res) = Cardinality(NamesOf(last'.res))
          /\ \A n \in DOMAIN OverlayOut :
                 \E i \in 1..Len(last'.res) : last'.res[i] = OverlayOut[n]]_vars

\* the overlay and a registry both report "a", a registry alone reports "b"
C13_Witness ==
    /\ last.op = "PathsPortFileProvider::load_all_control_files"
    /\ ~crashed
    /\ CleanLayout
    /\ NamesOf(last.args) = {NameA, NameB}
    /\ DOMAIN OverlayOut = {NameA}
    /\ last.res = <<OverlayOut[NameA], last.args[2]>>

\* every entry of the cache is an entry of the cache after the step
InsertOnly(cache, cache_after) ==
    \A k \in DOMAIN cache : k \in DOMAIN cache_after /\ cache_after[k] = cache[k]

\* the query calls[i] had its key in the cache and was answered with the cached result
AnsweredFrom(cache, calls, i) ==
    CacheHas(cache, calls[i][2]) => calls[i][3] = cache[calls[i][2]]

\* C20: a step of the providers leaves every entry of the overlay, baseline and versioned
\* caches in place with its value, also a step of load_all_control_files; a query for a
\* key that has an entry, success or error, is answered with the entry, and no registry
\* is asked again for the baseline or for the port
C20_CachesMemoize ==
    [][/\ InsertOnly(m_overlay_cache, m_overlay_cache')
       /\ InsertOnly(m_baseline_cache, m_baseline_cache')
       /\ InsertOnly(m_control_cache, m_control_cache')
       /\ \A i \in 1..Len(last'.calls) :
              /\ last'.calls[i][1] = "m_overlay->get_control_file"
                 => AnsweredFrom(m_overlay_cache, last'.calls, i)
              /\ last'.calls[i][1] = "m_baseline->get_baseline_version"
                 => /\ AnsweredFrom(m_baseline_cache, last'.calls, i)
                    /\ CacheHas(m_baseline_cache, last'.calls[i][2])
                       => ~Consulted(last'.calls, "RegistryImplementation::get_baseline_version")
              /\ last'.calls[i][1] = "m_versioned->get_control_file"
                 => /\ AnsweredFrom(m_control_cache, last'.calls, i)
                    /\ CacheHas(m_control_cache, last'.calls[i][2])
                       => ~Consulted(last'.calls, "RegistryImplementation::get_port")]_vars

\* a failed load of the versioned provider answered again from the cache: the baseline and
\* the versioned provider were asked and no registry was
C20_Witness ==
    /\ last.op = "PathsPortFileProvider::get_control_file_required"
    /\ ~last.res.ok
    /\ Consulted(last.calls, "m_baseline->get_baseline_version")
    /\ Consulted(last.calls, "m_versioned->get_control_file")
    /\ ~Consulted(last.calls, "RegistryImplementation::get_baseline_version")
    /\ ~Consulted(last.calls, "RegistryImplementation::get_port")

\* ------------------------------------------------------------------------
\* State machine of the manifest provider
\* ------------------------------------------------------------------------

Manifests == {Scfl(n, "2.0", <<"manifest">>) : n \in OverlayNames}

InitManifest ==
    /\ lockdata = <<>>
    /\ loadedLock = lockdata
    /\ modified = FALSE
    /\ git = [g \in GitRegs |-> GitRegistryInit]
    /\ baselineSource = "local"
    /\ gitObjects = {BaselineSha}
    /\ metrics = {}
    /\ crashed = FALSE
    /\ remote = [k \in Keys |-> "c2"]
    /\ treeStatus = [c \in Commits |-> "ok"]
    /\ badTrees = {}
    /\ overlays \in OverlayLayouts
    /\ registry_set = DefaultOnly("g1")
    /\ m_manifest_scf_and_location \in Manifests
    /\ NoFilesystem
    /\ m_overlay_cache = EmptyCache
    /\ NoProviders
    /\ NoBuiltin
    /\ fetchAttempts = [k \in Keys |-> 0]
    /\ fetchSuccesses = [k \in Keys |-> 0]
    /\ refreshAttempts = [k \in Keys |-> 0]
    /\ last = [op |-> "start", args |-> <<>>, res |-> Ok(Unit), calls |-> <<>>]

ManifestGetControlFile ==
    \E port_name \in OverlayNames :
        /\ ~crashed
        /\ Finish("ManifestProviderImpl::get_control_file", port_name,
                  ManifestProvider_get_control_file(World, port_name))
        /\ EnvUnchanged

ManifestLoadAllControlFiles ==
    /\ ~crashed
    /\ Finish("ManifestProviderImpl::load_all_control_files", <<>>,
              ManifestProvider_load_all_control_files(World, EmptyCache))
    /\ EnvUnchanged

NextManifest ==
    \/ ManifestGetControlFile
    \/ ManifestLoadAllControlFiles

SpecManifest == InitManifest /\ [][NextManifest]_vars

\* ------------------------------------------------------------------------
\* Properties of the manifest provider
\* ------------------------------------------------------------------------

ManifestName == to_name(m_manifest_scf_and_location)

\* C11: get_control_file of the manifest's own name returns the manifest's recipe, also
\* when an overlay provides that name, and neither asks the overlays nor touches their cache
C11_ManifestNameIsManifest ==
    [][(/\ last'.op = "ManifestProviderImpl::get_control_file"
        /\ last'.args = ManifestName)
       => /\ last'.res = Ok(m_manifest_scf_and_location)
          /\ last'.calls = <<>>
          /\ m_overlay_cache' = m_overlay_cache]_vars

\* the manifest's name asked while an overlay provides a port of that name
C11_Witness ==
    /\ last.op = "ManifestProviderImpl::get_control_file"
    /\ last.args = ManifestName
    /\ last.res = Ok(m_manifest_scf_and_location)
    /\ CleanLayout
    /\ Providers(ManifestName) # {}

\* C12: after load_all_control_files the entry under the manifest's name is the
\* manifest's own recipe, also when an overlay provides a port of that name
C12_ManifestBeatsOverlays ==
    [][(/\ last'.op = "ManifestProviderImpl::load_all_control_files"
        /\ CleanLayout
        /\ ~crashed')
       => /\ ManifestName \in DOMAIN last'.res
          /\ last'.res[ManifestName] = m_manifest_scf_and_location]_vars

\* ------------------------------------------------------------------------
\* State machine of the registry set's routing
\* ------------------------------------------------------------------------

\* pattern lists as Registry's constructor leaves them: sorted, without duplicates
PatternLists ==
    {<<>>, <<NameA>>, <<NameAB>>, <<(<<"*">>)>>, <<(<<"a", "*">>)>>,
     <<(<<"a", "*">>), NameAB>>, <<(<<"b", "*">>)>>}

\* the implementation behind the registry at position k of the configuration
ImplAt(k) == IF k % 2 = 1 THEN "g1" ELSE "g2"

RoutingSets ==
    {[registries_ |-> [k \in 1..n |-> [patterns |-> ps[k], impl |-> ImplAt(k)]],
      default_registry_ |-> d] :
        n \in 0..MaxRegistries, ps \in [1..MaxRegistries -> PatternLists],
        d \in {None, Some("g1"), Some("g2")}}

RoutedNames == {NameA, NameAB, NameB}

\* names and patterns handed to package_pattern_match
Chars == {"a", "b", "*"}
Strings(n) == UNION {[1..k -> Chars] : k \in 0..n}

InitRouting ==
    /\ lockdata = <<>>
    /\ loadedLock = lockdata
    /\ modified = FALSE
    /\ git = [g \in GitRegs |-> GitRegistryInit]
    /\ baselineSource = "local"
    /\ gitObjects = {BaselineSha}
    /\ metrics = {}
    /\ crashed = FALSE
    /\ remote = [k \in Keys |-> "c2"]
    /\ treeStatus = [c \in Commits |-> "ok"]
    /\ badTrees = {}
    /\ overlays = <<>>
    /\ registry_set \in RoutingSets
    /\ m_overlay_cache = EmptyCache
    /\ NoProviders
    /\ NoManifest
    /\ NoFilesystem
    /\ NoBuiltin
    /\ fetchAttempts = [k \in Keys |-> 0]
    /\ fetchSuccesses = [k \in Keys |-> 0]
    /\ refreshAttempts = [k \in Keys |-> 0]
    /\ last = [op |-> "start", args |-> <<>>, res |-> Ok(Unit), calls |-> <<>>]

PackagePatternMatch ==
    \E name \in Strings(MaxNameLen), pattern \in Strings(MaxNameLen + 1) :
        /\ ~crashed
        /\ Finish("package_pattern_match", <<name, pattern>>,
                  Ret(World, Ok(package_pattern_match(name, pattern))))
        /\ EnvUnchanged

RegistryForPort ==
    \E name \in RoutedNames :
        /\ ~crashed
        /\ Finish("RegistrySet::registry_for_port", name, Ret(World, registry_for_port(name)))
        /\ EnvUnchanged

BaselineForPort ==
    \E port_name \in RoutedNames :
        /\ ~crashed
        /\ Finish("RegistrySet::baseline_for_port", port_name,
                  baseline_for_port(World, port_name))
        /\ EnvUnchanged

RegistrySetGetPort ==
    \E port_name \in RoutedNames, version \in Versions :
        /\ ~crashed
        /\ Finish("RegistrySet::get_port", [port_name |-> port_name, version |-> version],
                  RegistrySet_get_port(World, [port_name |-> port_name, version |-> version]))
        /\ EnvUnchanged

RegistrySetGetAllPortVersions ==
    \E port_name \in RoutedNames :
        /\ ~crashed
        /\ Finish("RegistrySet::get_all_port_versions", port_name,
                  RegistrySet_get_all_port_versions(World, port_name))
        /\ EnvUnchanged

\* package_pattern_match applied to every name and pattern
InitPattern ==
    /\ lockdata = <<>>
    /\ loadedLock = lockdata
    /\ modified = FALSE
    /\ git = [g \in GitRegs |-> GitRegistryInit]
    /\ baselineSource = "local"
    /\ gitObjects = {BaselineSha}
    /\ metrics = {}
    /\ crashed = FALSE
    /\ remote = [k \in Keys |-> "c2"]
    /\ treeStatus = [c \in Commits |-> "ok"]
    /\ badTrees = {}
    /\ overlays = <<>>
    /\ registry_set = DefaultOnly("g1")
    /\ m_overlay_cache = EmptyCache
    /\ NoProviders
    /\ NoManifest
    /\ NoFilesystem
    /\ NoBuiltin
    /\ fetchAttempts = [k \in Keys |-> 0]
    /\ fetchSuccesses = [k \in Keys |-> 0]
    /\ refreshAttempts = [k \in Keys |-> 0]
    /\ last = [op |-> "start", args |-> <<>>, res |-> Ok(0), calls |-> <<>>]

SpecPattern == InitPattern /\ [][PackagePatternMatch]_vars

NextRouting ==
    \/ RegistryForPort
    \/ BaselineForPort
    \/ RegistrySetGetPort

SpecRouting == InitRouting /\ [][NextRouting]_vars

\* the operations of the registry set that ask a registry
NextConsult ==
    \/ BaselineForPort
    \/ RegistrySetGetPort
    \/ RegistrySetGetAllPortVersions

SpecConsult == InitRouting /\ [][NextConsult]_vars

\* ------------------------------------------------------------------------
\* Properties of the routing
\* ------------------------------------------------------------------------

EndsWithStar(pattern) == pattern # <<>> /\ pattern[Len(pattern)] = "*"

StartsWith(name, prefix) ==
    Len(name) >= Len(prefix) /\ SubSeq(name, 1, Len(prefix)) = prefix

\* the score the specification gives to name against pattern
MatchScore(name, pattern) ==
    IF EndsWithStar(pattern)
    THEN (IF StartsWith(name, SubSeq(pattern, 1, Len(pattern) - 1)) THEN Len(pattern) ELSE 0)
    ELSE (IF name = pattern THEN SIZE_MAX ELSE 0)

\* the best score of the registry at position k for name
BestScore(k, name) ==
    LET ps == registry_set.registries_[k].patterns
        scores == {MatchScore(name, ps[i]) : i \in 1..Len(ps)} \cup {0}
    IN  CHOOSE s \in scores : \A t \in scores : t <= s

Matching(name) == {k \in 1..Len(registry_set.registries_) : BestScore(k, name) > 0}

\* the first registry, in configuration order, among those with the highest score
Winner(name) ==
    CHOOSE k \in Matching(name) :
        \A j \in Matching(name) :
            \/ BestScore(j, name) < BestScore(k, name)
            \/ BestScore(j, name) = BestScore(k, name) /\ k <= j

HasExactPattern(k, name) ==
    \E i \in 1..Len(registry_set.registries_[k].patterns) :
        registry_set.registries_[k].patterns[i] = name

\* C14: when some registry matches the name, registry_for_port returns the registry with
\* the highest best score, the first in configuration order among equals; a registry with
\* the exact name as a pattern is preferred to every registry with only wildcard matches
C14_BestMatchFirstInOrder ==
    [][(/\ last'.op = "RegistrySet::registry_for_port"
        /\ Matching(last'.args) # {})
       => /\ last'.res = Some(registry_set.registries_[Winner(last'.args)].impl)
          /\ (\E k \in Matching(last'.args) : HasExactPattern(k, last'.args))
             => HasExactPattern(Winner(last'.args), last'.args)]_vars

\* two registries match the name with the same score and the first one is returned,
\* or a later registry wins with the exact name over an earlier wildcard
C14_Witness ==
    /\ last.op = "RegistrySet::registry_for_port"
    /\ Cardinality(Matching(last.args)) = 2
    /\ \/ BestScore(1, last.args) = BestScore(2, last.args)
       \/ (~HasExactPattern(1, last.args) /\ HasExactPattern(2, last.args)
           /\ last.res = Some("g2"))

\* C15: package_pattern_match is the pattern's length for a wildcard pattern whose prefix
\* starts the name, SIZE_MAX for an equal pattern without wildcard, and 0 otherwise
C15_PatternScore ==
    [][last'.op = "package_pattern_match"
       => last'.res = Ok(MatchScore(last'.args[1], last'.args[2]))]_vars

\* a name shorter than the wildcard's prefix scores 0
C15_Witness ==
    /\ last.op = "package_pattern_match"
    /\ EndsWithStar(last.args[2])
    /\ Len(last.args[1]) < Len(last.args[2]) - 1
    /\ last.res = Ok(0)

\* C16: with no matching pattern registry_for_port returns the default registry and
\* baseline_for_port asks it; without a default registry baseline_for_port returns
\* NoRegistryForPort and RegistrySet::get_port returns no port and no error
C16_DefaultRegistry ==
    [][/\ (last'.op = "RegistrySet::registry_for_port" /\ Matching(last'.args) = {})
          => last'.res = registry_set.default_registry_
       /\ (last'.op = "RegistrySet::baseline_for_port" /\ Matching(last'.args) = {})
          => IF registry_set.default_registry_.has
             THEN /\ last'.res = GitRegistry_get_baseline_version(
                                     World, registry_set.default_registry_.v, last'.args).res
                  /\ last'.calls[1] = <<"RegistryImplementation::get_baseline_version",
                                        registry_set.default_registry_.v, last'.args>>
             ELSE /\ last'.res = Err(<<"NoRegistryForPort", last'.args>>)
                  /\ last'.calls = <<>>
       /\ (/\ last'.op = "RegistrySet::get_port"
           /\ Matching(last'.args.port_name) = {}
           /\ ~registry_set.default_registry_.has)
          => /\ last'.res = Ok(None)
             /\ last'.calls = <<>>]_vars

\* no registry matched and none is the default: get_port found no port
C16_Witness ==
    /\ last.op = "RegistrySet::get_port"
    /\ registry_set.registries_ # <<>>
    /\ Matching(last.args.port_name) = {}
    /\ ~registry_set.default_registry_.has
    /\ last.res = Ok(None)

\* the calls of calls that enter a registry implementation
ImplementationCalls(calls) ==
    SelectSeq(calls, LAMBDA c : c[1] \in {"RegistryImplementation::get_port",
                                          "RegistryImplementation::get_all_port_versions",
                                          "RegistryImplementation::get_baseline_version"})

\* C38: RegistrySet's get_port, get_all_port_versions and baseline_for_port answer with
\* what the one registry that registry_for_port selects answers, "none" included, enter
\* that registry only, once, and leave the lazy state of every other registry, lower
\* scoring or default, as it was
C38_OnlySelectedRegistry ==
    [][\A name \in RoutedNames :
          LET impl == registry_for_port(name)
          IN  impl.has =>
              /\ (last'.op = "RegistrySet::get_port" /\ last'.args.port_name = name)
                 => /\ last'.res = GitRegistry_get_port(World, impl.v, last'.args).res
                    /\ ImplementationCalls(last'.calls)
                       = <<(<<"RegistryImplementation::get_port", impl.v, name,
                              last'.args.version>>)>>
                    /\ \A g \in GitRegs \ {impl.v} : git'[g] = git[g]
              /\ (last'.op = "RegistrySet::get_all_port_versions" /\ last'.args = name)
                 => /\ last'.res = GitRegistry_get_all_port_versions(World, impl.v, name).res
                    /\ ImplementationCalls(last'.calls)
                       = <<(<<"RegistryImplementation::get_all_port_versions", impl.v,
                              name>>)>>
                    /\ \A g \in GitRegs \ {impl.v} : git'[g] = git[g]
              /\ (last'.op = "RegistrySet::baseline_for_port" /\ last'.args = name)
                 => /\ last'.res = GitRegistry_get_baseline_version(World, impl.v, name).res
                    /\ ImplementationCalls(last'.calls)
                       = <<(<<"RegistryImplementation::get_baseline_version", impl.v,
                              name>>)>>
                    /\ \A g \in GitRegs \ {impl.v} : git'[g] = git[g]]_vars

\* the selected registry had no such version, the answer is "none", and the lower-scoring
\* matching registry, which is also the default registry, was never entered
C38_Witness ==
    /\ last.op = "RegistrySet::get_port"
    /\ last.res = Ok(None)
    /\ Cardinality(Matching(last.args.port_name)) = 2
    /\ registry_for_port(last.args.port_name) = Some("g1")
    /\ registry_set.default_registry_ = Some("g2")
    /\ git["g1"] # GitRegistryInit
    /\ git["g2"] = GitRegistryInit

\* ------------------------------------------------------------------------
\* State machine of the reachable port names
\* ------------------------------------------------------------------------

\* sorted pattern lists: an exact name, a wildcard next to an exact name, the empty
\* pattern next to an exact name, the wildcard that matches every name
NamePatternLists ==
    {<<NameA>>, <<(<<"a", "*">>), NameAB>>, <<(<<>>), NameB>>, <<(<<"*">>)>>}

NameImpls == {"g1", "f1", "f2"}

NameSets ==
    {[registries_ |-> [k \in 1..n |-> [patterns |-> ps[k], impl |-> is[k]]],
      default_registry_ |-> d] :
        n \in 0..MaxRegistries, ps \in [1..MaxRegistries -> NamePatternLists],
        is \in [1..MaxRegistries -> NameImpls], d \in {None, Some("g1"), Some("f2")}}

\* what a versions directory lists, or the failure to read it
FsListings ==
    [FsRegs -> {Ok(<<NameB, NameA>>), Ok(<<NameAB, NameB, NameAB>>), Err(<<"FilesystemCall">>)}]

InitNames ==
    /\ lockdata = <<>>
    /\ loadedLock = lockdata
    /\ modified = FALSE
    /\ git = [g \in GitRegs |-> GitRegistryInit]
    /\ baselineSource = "local"
    /\ gitObjects = {BaselineSha}
    /\ metrics = {}
    /\ crashed = FALSE
    /\ remote = [k \in Keys |-> "c2"]
    /\ treeStatus = [c \in Commits |-> "ok"]
    /\ badTrees = {}
    /\ overlays = <<>>
    /\ registry_set \in NameSets
    /\ fsVersions \in FsListings
    /\ m_overlay_cache = EmptyCache
    /\ NoProviders
    /\ NoManifest
    /\ NoBuiltin
    /\ fetchAttempts = [k \in Keys |-> 0]
    /\ fetchSuccesses = [k \in Keys |-> 0]
    /\ refreshAttempts = [k \in Keys |-> 0]
    /\ last = [op |-> "start", args |-> <<>>, res |-> Ok(<<>>), calls |-> <<>>]

GetAllReachablePortNames ==
    /\ ~crashed
    /\ Finish("RegistrySet::get_all_reachable_port_names", <<>>,
              get_all_reachable_port_names(World))
    /\ EnvUnchanged

GetAllKnownReachablePortNamesNoNetwork ==
    /\ ~crashed
    /\ Finish("RegistrySet::get_all_known_reachable_port_names_no_network", <<>>,
              get_all_known_reachable_port_names_no_network(World))
    /\ EnvUnchanged

NextNames ==
    \/ GetAllReachablePortNames
    \/ GetAllKnownReachablePortNamesNoNetwork

SpecNames == InitNames /\ [][NextNames]_vars

\* ------------------------------------------------------------------------
\* Properties of the reachable port names
\* ------------------------------------------------------------------------

Range(v) == {v[i] : i \in 1..Len(v)}

StrictlyAscending(v) == \A i \in 1..(Len(v) - 1) : StringLess(v[i], v[i + 1])

\* the names the implementation lists when asked for all of them
Listed(impl) == Range(RegistryImplementation_append_all_port_names(World, impl, <<>>).res.val)

Matches(name, patterns) == \E i \in 1..Len(patterns) : MatchScore(name, patterns[i]) > 0

\* the names of the registry at position k that its own patterns let through
Reachable(k) ==
    {name \in Listed(registry_set.registries_[k].impl) :
        Matches(name, registry_set.registries_[k].patterns)}

DefaultListed ==
    IF registry_set.default_registry_.has THEN Listed(registry_set.default_registry_.v) ELSE {}

ExactPatterns(k) ==
    {p \in Range(registry_set.registries_[k].patterns) : p # <<>> /\ ~EndsWithStar(p)}

\* what the registry at position k contributes without network
KnownReachable(k) ==
    IF registry_set.registries_[k].impl \in GitRegs THEN ExactPatterns(k) ELSE Reachable(k)

DefaultKnown ==
    IF registry_set.default_registry_.has /\ registry_set.default_registry_.v \notin GitRegs
    THEN Listed(registry_set.default_registry_.v)
    ELSE {}

\* C17: a successful result of get_all_reachable_port_names and of
\* get_all_known_reachable_port_names_no_network is sorted ascending without duplicates
C17_SortedNoDuplicates ==
    [][(/\ last'.op \in {"RegistrySet::get_all_reachable_port_names",
                         "RegistrySet::get_all_known_reachable_port_names_no_network"}
        /\ last'.res.ok)
       => StrictlyAscending(last'.res.val)]_vars

\* two registries list the same name and the result names it once
C17_Witness ==
    /\ last.op = "RegistrySet::get_all_reachable_port_names"
    /\ last.res.ok
    /\ Len(registry_set.registries_) = 2
    /\ Reachable(1) \cap Reachable(2) # {}
    /\ Len(last.res.val) >= 2

\* C18: get_all_reachable_port_names keeps of each registry's names exactly those that
\* one of its own patterns matches, whatever the patterns of the registries after it,
\* and keeps every name of the default registry
C18_FilterOwnNamesOnly ==
    [][(/\ last'.op = "RegistrySet::get_all_reachable_port_names"
        /\ last'.res.ok)
       => Range(last'.res.val)
          = UNION {Reachable(k) : k \in 1..Len(registry_set.registries_)} \cup DefaultListed]_vars

\* a name kept from the first registry matches no pattern of the second, and the default
\* registry lists a name no pattern matches
C18_Witness ==
    /\ last.op = "RegistrySet::get_all_reachable_port_names"
    /\ last.res.ok
    /\ Len(registry_set.registries_) = 2
    /\ \E name \in Reachable(1) : ~Matches(name, registry_set.registries_[2].patterns)
    /\ Listed(registry_set.registries_[2].impl) # Reachable(2)
    /\ \E name \in DefaultListed :
           \A k \in 1..2 : ~Matches(name, registry_set.registries_[k].patterns)

\* C19: in get_all_known_reachable_port_names_no_network a registry whose
\* try_append_all_port_names_no_network answers false contributes exactly its patterns
\* that are not empty and do not end in '*', and the result holds no empty name and no
\* name ending in '*'
C19_UnknownNamesAreExactPatterns ==
    [][(/\ last'.op = "RegistrySet::get_all_known_reachable_port_names_no_network"
        /\ last'.res.ok)
       => /\ Range(last'.res.val)
             = UNION {KnownReachable(k) : k \in 1..Len(registry_set.registries_)}
               \cup DefaultKnown
          /\ \A name \in Range(last'.res.val) : name # <<>> /\ ~EndsWithStar(name)]_vars

\* a git registry with a wildcard or empty pattern next to an exact one was asked
C19_Witness ==
    /\ last.op = "RegistrySet::get_all_known_reachable_port_names_no_network"
    /\ last.res.ok
    /\ \E k \in 1..Len(registry_set.registries_) :
           /\ registry_set.registries_[k].impl \in GitRegs
           /\ ExactPatterns(k) # {}
           /\ ExactPatterns(k) # Range(registry_set.registries_[k].patterns)
           /\ ExactPatterns(k) \subseteq Range(last.res.val)

\* the registry that registry_for_port selects for name lists name
SelectedLists(name) ==
    /\ registry_for_port(name).has
    /\ name \in Listed(registry_for_port(name).v)

\* C37 as stated: every name that get_all_reachable_port_names returns is listed by the
\* registry that registry_for_port selects for it
C37_ReachableNamesAreServed ==
    [][(/\ last'.op = "RegistrySet::get_all_reachable_port_names"
        /\ last'.res.ok)
       => \A name \in Range(last'.res.val) : SelectedLists(name)]_vars

\* C37, amended: every name that get_all_reachable_port_names returns is listed by a
\* registry one of whose patterns matches it, or by the default registry; a name that no
\* pattern of any registry matches is listed by the registry registry_for_port selects
\* for it, the default registry. A name that some pattern matches need not be listed
\* by the selected registry.
C37_ReachableNamesAreListed ==
    [][(/\ last'.op = "RegistrySet::get_all_reachable_port_names"
        /\ last'.res.ok)
       => \A name \in Range(last'.res.val) :
              /\ \/ \E k \in 1..Len(registry_set.registries_) : name \in Reachable(k)
                 \/ name \in DefaultListed
              /\ (\A k \in 1..Len(registry_set.registries_) :
                      ~Matches(name, registry_set.registries_[k].patterns))
                 => SelectedLists(name)]_vars

\* one returned name is listed by a registry with a matching pattern while the registry
\* selected for it does not list it, another is matched by no pattern and listed by the
\* default registry
C37_Witness ==
    /\ last.op = "RegistrySet::get_all_reachable_port_names"
    /\ last.res.ok
    /\ \E name \in Range(last.res.val) :
           /\ \E k \in 1..Len(registry_set.registries_) : name \in Reachable(k)
           /\ ~SelectedLists(name)
    /\ \E name \in Range(last.res.val) :
           /\ \A k \in 1..Len(registry_set.registries_) :
                  ~Matches(name, registry_set.registries_[k].patterns)
           /\ SelectedLists(name)

\* ------------------------------------------------------------------------
\* State machine of the baseline of a git registry
\* ------------------------------------------------------------------------

\* a process whose lock file may pin "main"; the baseline commit is held by the local
\* repository, arrives with the reference, can be fetched by its sha (with or without a
\* baseline file in it), or cannot be obtained
InitBaseline ==
    /\ lockdata \in {<<>>, <<LoadedEntry(KeyMain)>>}
    /\ loadedLock = lockdata
    /\ modified = FALSE
    /\ git = [g \in GitRegs |-> GitRegistryInit]
    /\ baselineSource \in {"local", "with_ref", "by_sha", "no_file", "never"}
    /\ gitObjects = IF baselineSource = "local" THEN {BaselineSha} ELSE {}
    /\ metrics = {}
    /\ crashed = FALSE
    /\ remote \in {r \in RemoteStates : r[KeyDev] = "c2"}
    /\ treeStatus = [c \in Commits |-> "ok"]
    /\ badTrees = {}
    /\ overlays = <<>>
    /\ registry_set = DefaultOnly("g1")
    /\ m_overlay_cache = EmptyCache
    /\ NoProviders
    /\ NoManifest
    /\ NoFilesystem
    /\ NoBuiltin
    /\ fetchAttempts = [k \in Keys |-> 0]
    /\ fetchSuccesses = [k \in Keys |-> 0]
    /\ refreshAttempts = [k \in Keys |-> 0]
    /\ last = [op |-> "start", args |-> <<>>, res |-> Ok(Unit), calls |-> <<>>]

NextBaseline ==
    \/ GitGetBaselineVersion
    \/ GitGetAllPortVersions
    \/ GitGetPort

SpecBaseline == InitBaseline /\ [][NextBaseline]_vars

\* ------------------------------------------------------------------------
\* Properties of the baseline of a git registry
\* ------------------------------------------------------------------------

\* the git_show and git_fetch(repo, sha) calls among calls, in order, each with its outcome
ShowsAndFetches(calls) ==
    LET picked == SelectSeq(calls, LAMBDA c : c[1] \in {"git_show_from_remote_registry", "git_fetch"})
    IN  [i \in 1..Len(picked) |->
            IF picked[i][1] = "git_fetch" THEN <<"git_fetch", picked[i][4]>>
            ELSE <<"git_show", picked[i][3]>>]

\* the positions in calls of the remote fetches that bring a lock entry in or up to date
LockFetches(calls) == {i \in 1..Len(calls) : calls[i][1] = "git_fetch_from_remote_registry"}

\* the position in calls of the k-th git_show, 0 if there is none
ShowPosition(calls, k) ==
    LET at == {i \in 1..Len(calls) :
                  /\ calls[i][1] = "git_show_from_remote_registry"
                  /\ Cardinality({j \in 1..i : calls[j][1] = "git_show_from_remote_registry"}) = k}
    IN  IF at = {} THEN 0 ELSE CHOOSE i \in at : TRUE

InitLocator ==
    /\ lockdata = <<>>
    /\ loadedLock = lockdata
    /\ modified = FALSE
    /\ git = [g \in GitRegs |-> GitRegistryInit]
    /\ baselineSource = "local"
    /\ gitObjects = {BaselineSha}
    /\ metrics = {}
    /\ crashed = FALSE
    /\ remote = [k \in Keys |-> "c2"]
    /\ treeStatus = [c \in Commits |-> "ok"]
    /\ badTrees = {}
    /\ overlays = <<>>
    /\ registry_set = DefaultOnly("g1")
    /\ m_overlay_cache = EmptyCache
    /\ NoProviders
    /\ NoManifest
    /\ NoFilesystem
    /\ NoBuiltin
    /\ fetchAttempts = [k \in Keys |-> 0]
    /\ fetchSuccesses = [k \in Keys |-> 0]
    /\ refreshAttempts = [k \in Keys |-> 0]
    /\ last \in [op : {"versions file"}, args : PathStrings(MaxPathLen), res : {Ok(None)},
                 calls : {<<>>}]

\* the versions file on disk, whose entry has the path last.args, is loaded
LoadVersionsFileOfPath ==
    /\ ~crashed
    /\ last.op = "versions file"
    /\ Finish("load_versions_file", last.args,
              Ret(World, load_versions_file_of_path(RegistryRoot, "1.0", last.args)))
    /\ EnvUnchanged

SpecLocator == InitLocator /\ [][LoadVersionsFileOfPath]_vars

\* some component of the path, the text between two slashes or an end, is exactly dots
HasComponent(s, dots) ==
    \E i \in 1..(Len(s) + 1 - Len(dots)) :
        /\ \A j \in 1..Len(dots) : s[i + j - 1] = dots[j]
        /\ i = 1 \/ s[i - 1] = "/"
        /\ i + Len(dots) = Len(s) + 1 \/ s[i + Len(dots)] = "/"

\* the paths the specification accepts
AcceptedLocator(s) ==
    /\ Len(s) >= 2 /\ s[1] = "$" /\ s[2] = "/"
    /\ \A i \in 1..Len(s) : s[i] # "\\"
    /\ \A i \in 1..(Len(s) - 1) : ~(s[i] = "/" /\ s[i + 1] = "/")
    /\ ~HasComponent(s, <<".">>)
    /\ ~HasComponent(s, <<".", ".">>)

\* C30: a path of a filesystem version database is accepted exactly when it begins with
\* "$/", holds no backslash and no "//", and has no component "." or ".."; an accepted
\* path resolves to the registry root joined with what follows "$/", and a rejected one
\* makes the versions file fail to parse
C30_LocatorValidated ==
    [][last'.op = "load_versions_file"
       => IF AcceptedLocator(last'.args)
          THEN last'.res = Ok(Some(<<[version |-> "1.0",
                                      p |-> Path_join(RegistryRoot,
                                                      SubSeq(last'.args, 3, Len(last'.args)))]>>))
          ELSE /\ ~last'.res.ok
               /\ last'.res.err[1] = "FailedToParseVersionsFile"]_vars

\* a path whose last component is three dots is accepted
C30_Witness ==
    /\ last.op = "load_versions_file"
    /\ last.args = <<"$", "/", ".", ".", ".">>
    /\ last.res.ok
    /\ last.res.val.v[1].p = Path_join(RegistryRoot, <<".", ".", ".">>)

\* ------------------------------------------------------------------------
\* State machine of the versioned provider
\* ------------------------------------------------------------------------

InitVersioned ==
    /\ lockdata \in {<<>>, <<LoadedEntry(KeyMain)>>}
    /\ loadedLock = lockdata
    /\ modified = FALSE
    /\ git = [g \in GitRegs |-> GitRegistryInit]
    /\ baselineSource = "local"
    /\ gitObjects = {BaselineSha}
    /\ metrics = {}
    /\ crashed = FALSE
    /\ remote \in {r \in RemoteStates : r[KeyDev] = "c2"}
    /\ treeStatus = [c \in Commits |-> "ok"]
    /\ badTrees = {}
    /\ overlays = <<>>
    /\ registry_set = DefaultOnly("g1")
    /\ m_overlay_cache = EmptyCache
    /\ NoProviders
    /\ NoManifest
    /\ NoFilesystem
    /\ NoBuiltin
    /\ fetchAttempts = [k \in Keys |-> 0]
    /\ fetchSuccesses = [k \in Keys |-> 0]
    /\ refreshAttempts = [k \in Keys |-> 0]
    /\ last = [op |-> "start", args |-> <<>>, res |-> Ok(Unit), calls |-> <<>>]

VersionedGetControlFile ==
    \E version_spec \in [port_name : Ports, version : Versions] :
        /\ ~crashed
        /\ Finish("VersionedPortfileProviderImpl::get_control_file", version_spec,
                  VersionedPortfileProviderImpl_get_control_file(World, version_spec))
        /\ EnvUnchanged

VersionedLoadAllControlFiles ==
    \E all_ports \in RegistryPorts :
        /\ ~crashed
        /\ Finish("VersionedPortfileProviderImpl::load_all_control_files", all_ports,
                  VersionedPortfileProviderImpl_load_all_control_files(World, EmptyCache,
                                                                       all_ports))
        /\ EnvUnchanged

NextVersioned ==
    \/ VersionedGetControlFile
    \/ VersionedLoadAllControlFiles

SpecVersioned == InitVersioned /\ [][NextVersioned]_vars

\* what the registry of the port answers, in the current state, for the version asked
RegistryAnswer(version_spec) ==
    GitRegistry_get_port(World, registry_for_port(version_spec.port_name).v, version_spec).res

\* C29: a successful result of the versioned provider, returned or held in its cache, for
\* the key (port_name, version) holds a recipe whose version spec is the key; when the
\* recipe the registry gives for the key declares another name or version the result is
\* the VersionSpecMismatch error
C29_RecipeAgreesWithKey ==
    [][/\ \A key \in DOMAIN m_control_cache' :
              m_control_cache'[key].ok => to_version_spec(m_control_cache'[key].val) = key
       /\ last'.op = "VersionedPortfileProviderImpl::get_control_file"
          => /\ last'.res.ok => to_version_spec(last'.res.val) = last'.args
             /\ (/\ ~CacheHas(m_control_cache, last'.args)
                 /\ RegistryAnswer(last'.args).ok
                 /\ RegistryAnswer(last'.args).val.has
                 /\ RecipeAtTree(RegistryAnswer(last'.args).val.v.path[2])
                        # [name |-> last'.args.port_name, version |-> last'.args.version])
                => /\ ~last'.res.ok
                   /\ last'.res.err[1] = "VersionSpecMismatch"]_vars

\* the version database lists ab at 1.0 but the recipe in its tree declares 2.0
C29_Witness ==
    /\ last.op = "VersionedPortfileProviderImpl::get_control_file"
    /\ last.args = [port_name |-> NameAB, version |-> "1.0"]
    /\ ~last.res.ok
    /\ last.res.err[1] = "VersionSpecMismatch"
    /\ m_control_cache[last.args] = last.res

\* ------------------------------------------------------------------------
\* BuiltinFilesRegistry
\* ------------------------------------------------------------------------

\* what the directory <builtin-ports>/<port_name> holds
BuiltinPortAt(port_name) == IF port_name = NameA THEN disk.ports ELSE [k |-> "none"]

\* Paragraphs::try_load_port(fs, port_name, path): the recipe in the directory, a null
\* pointer when the directory holds none
Paragraphs_try_load_port(port_name) ==
    Bind(BuiltinPortAt(port_name), LAMBDA e :
        IF e.k = "error" THEN Err(<<"ParseControlError", port_name>>)
        ELSE IF e.k = "none" THEN Ok(None)
        ELSE Ok(Some([name |-> e.name, version |-> e.version])))

\* how an external call ended, as recorded with the call
Outcome(r) == IF r.ok THEN "ok" ELSE "error"

\* the same for a call that reports a missing file or directory as an empty value
OptionalOutcome(r) == IF ~r.ok THEN "error" ELSE IF ~r.val.has THEN "missing" ELSE "ok"

\* m_builtin_ports_directory / port_name
builtin_port_directory(port_name) == <<"ports", port_name>>

\* get_scf: m_scfs.get_lazy(path, ...)
BuiltinFilesRegistry_get_scf(w, port_name) ==
    IF CacheHas(w.m_scfs, builtin_port_directory(port_name))
    THEN Ret(w, w.m_scfs[builtin_port_directory(port_name)])
    ELSE Bind(Paragraphs_try_load_port(port_name), LAMBDA loaded :
             Ret(Call([w EXCEPT !.m_scfs = CachePut(@, builtin_port_directory(port_name), loaded)],
                      <<"Paragraphs::try_load_port", port_name, OptionalOutcome(loaded)>>),
                 loaded))

\* a get_port that takes whatever version the ports tree holds
BuiltinFilesRegistry_get_port_any_version(w, spec) ==
    Bind(BuiltinFilesRegistry_get_scf(w, spec.port_name), LAMBDA scf :
        IF ~scf.res.ok
        THEN scf
        ELSE IF ~scf.res.val.has
        THEN Ret(scf.w, Ok(None))
        ELSE IF scf.res.val.v.name # spec.port_name
        THEN Ret(scf.w, Err(<<"UnexpectedPortName", scf.res.val.v.name, spec.port_name,
                              builtin_port_directory(spec.port_name)>>))
        ELSE Ret(scf.w,
                 Ok(Some([path |-> builtin_port_directory(spec.port_name),
                          location |-> <<"git+https://github.com/Microsoft/vcpkg#ports/">>
                                       \o spec.port_name]))))

BuiltinFilesRegistry_get_port(w, spec) ==
    Bind(BuiltinFilesRegistry_get_scf(w, spec.port_name), LAMBDA scf :
        IF ~scf.res.ok
        THEN scf
        ELSE IF ~scf.res.val.has
        THEN Ret(scf.w, Ok(None))
        ELSE IF scf.res.val.v.name # spec.port_name
        THEN Ret(scf.w, Err(<<"UnexpectedPortName", scf.res.val.v.name, spec.port_name,
                              builtin_port_directory(spec.port_name)>>))
        ELSE IF scf.res.val.v.version # spec.version
        THEN Ret(Call(scf.w, <<"msg::println_warning",
                               <<"VersionBuiltinPortTreeEntryMissing", spec.port_name,
                                 spec.version, scf.res.val.v.version>>, "ok">>),
                 Ok(None))
        ELSE Ret(scf.w,
                 Ok(Some([path |-> builtin_port_directory(spec.port_name),
                          location |-> <<"git+https://github.com/Microsoft/vcpkg#ports/">>
                                       \o spec.port_name]))))

\* the directories under <builtin-ports>
builtin_port_directories == IF disk.ports.k = "none" THEN <<>> ELSE <<NameA>>

\* returns the extended out as the value of a successful result
BuiltinFilesRegistry_append_all_port_names(w, out) ==
    Bind(IF disk.ports_dir = "ok"
         THEN Ok(out \o builtin_port_directories)
         ELSE Err(<<"FilesystemCall", "try_get_directories_non_recursive", "ports">>),
         LAMBDA listed :
        Ret(Call(w, <<"try_get_directories_non_recursive", "ports", Outcome(listed)>>), listed))

\* ------------------------------------------------------------------------
\* BuiltinGitRegistry
\* ------------------------------------------------------------------------

\* m_paths.builtin_registry_versions
builtin_registry_versions == <<"versions", "builtin">>

\* get_versions: m_versions.get_lazy(port_name, ...)
BuiltinGitRegistry_get_versions(w, port_name) ==
    IF CacheHas(w.m_versions, port_name)
    THEN Ret(w, w.m_versions[port_name])
    ELSE Bind(load_versions(builtin_registry_versions, port_name), LAMBDA loaded :
             Ret(Call([w EXCEPT !.m_versions = CachePut(@, port_name, loaded)],
                      <<"load_versions_file", port_name, OptionalOutcome(loaded)>>),
                 loaded))

\* m_paths.git_checkout_port(port_name, git_tree, m_paths.root / ".git")
git_checkout_port(w, port_name, git_tree) ==
    Bind(IF git_tree \in badTrees
         THEN Err(<<"GitCheckoutFailed", port_name, git_tree>>)
         ELSE Ok(<<"git-trees", port_name, git_tree>>), LAMBDA p :
        Ret(Call(w, <<"git_checkout_port", git_tree, Outcome(p)>>), p))

\* format_version_git_entry_missing followed by the note to update vcpkg
format_version_git_entry_missing(port_name, expected_version, versions) ==
    <<"VersionGitEntryMissing", port_name, expected_version, versions, "ChecksUpdateVcpkg">>

\* a get_port that turns to the ports tree whenever the database lacks the version
BuiltinGitRegistry_get_port_falls_back(w, spec) ==
    Bind(BuiltinGitRegistry_get_versions(w, spec.port_name), LAMBDA versions :
        IF ~versions.res.ok
        THEN versions
        ELSE IF ~versions.res.val.has
        THEN BuiltinFilesRegistry_get_port(versions.w, spec)
        ELSE Bind(try_get_git_tree(versions.res.val.v, spec.version), LAMBDA git_tree :
                 IF ~git_tree.has
                 THEN BuiltinFilesRegistry_get_port(versions.w, spec)
                 ELSE Bind(git_checkout_port(versions.w, spec.port_name, git_tree.v), LAMBDA p :
                          IF ~p.res.ok
                          THEN p
                          ELSE Ret(p.w, Ok(Some([path |-> p.res.val,
                                                 location |->
                                                     <<"git+https://github.com/Microsoft/vcpkg@",
                                                       git_tree.v>>]))))))

BuiltinGitRegistry_get_port(w, spec) ==
    Bind(BuiltinGitRegistry_get_versions(w, spec.port_name), LAMBDA versions :
        IF ~versions.res.ok
        THEN versions
        ELSE IF ~versions.res.val.has
        THEN BuiltinFilesRegistry_get_port(versions.w, spec)
        ELSE Bind(try_get_git_tree(versions.res.val.v, spec.version), LAMBDA git_tree :
                 IF ~git_tree.has
                 THEN Ret(versions.w,
                          Err(format_version_git_entry_missing(
                                  spec.port_name, spec.version,
                                  versions.res.val.v.port_versions)))
                 ELSE Bind(git_checkout_port(versions.w, spec.port_name, git_tree.v), LAMBDA p :
                          IF ~p.res.ok
                          THEN p
                          ELSE Ret(p.w, Ok(Some([path |-> p.res.val,
                                                 location |->
                                                     <<"git+https://github.com/Microsoft/vcpkg@",
                                                       git_tree.v>>]))))))

\* append_all_port_names: what load_all_port_names_from_registry_versions returns is
\* dropped, the names it pushed stay in out
BuiltinGitRegistry_append_all_port_names(w, out) ==
    IF disk.versions_dir # "absent"
    THEN Bind(load_all_port_names_from_registry_versions(out, builtin_registry_versions),
              LAMBDA loaded :
             BuiltinFilesRegistry_append_all_port_names(
                 Call(w, <<"load_all_port_names_from_registry_versions",
                           builtin_registry_versions, Outcome(loaded)>>),
                 IF loaded.ok THEN loaded.val ELSE out))
    ELSE BuiltinFilesRegistry_append_all_port_names(w, out)

\* ------------------------------------------------------------------------
\* FilesystemRegistry
\* ------------------------------------------------------------------------

\* load_versions_file(m_fs, VersionDbType::Filesystem, m_path / "versions", port_name, m_path)
load_filesystem_versions_file(port_name) ==
    IF port_name # NameA \/ disk.fs_versions = "missing" THEN Ok(None)
    ELSE IF disk.fs_versions = "listed"
    THEN load_versions_file_contents("Filesystem", disk.versions_file, RegistryRoot)
    ELSE IF disk.fs_versions = "malformed" THEN Err(<<"VersionsFileParse">>)
    ELSE IF disk.fs_versions = "dots"
    THEN load_versions_file_of_path(RegistryRoot, "1.0", <<"$", "/", ".", ".">>)
    ELSE load_versions_file_of_path(RegistryRoot, "1.0", <<"$", "/", "f">>)

\* the FilesystemRegistryEntry built from the entries of the versions file
FilesystemRegistryEntry(version_entries) ==
    [port_versions |-> [i \in 1..Len(version_entries) |-> version_entries[i].version],
     version_paths |-> [i \in 1..Len(version_entries) |-> version_entries[i].p]]

\* get_entry: m_entries.get_lazy(port_name, ...)
FilesystemRegistry_get_entry(w, port_name) ==
    IF CacheHas(w.m_entries, port_name)
    THEN Ret(w, w.m_entries[port_name])
    ELSE Bind(load_filesystem_versions_file(port_name), LAMBDA loaded :
         Bind(IF ~loaded.ok THEN loaded
              ELSE IF ~loaded.val.has THEN Ok(None)
              ELSE Ok(Some(FilesystemRegistryEntry(loaded.val.v))), LAMBDA entry :
             Ret(Call([w EXCEPT !.m_entries = CachePut(@, port_name, entry)],
                      <<"load_versions_file", port_name, OptionalOutcome(loaded)>>),
                 entry)))

FilesystemRegistry_get_port(w, spec) ==
    Bind(FilesystemRegistry_get_entry(w, spec.port_name), LAMBDA entry :
        IF ~entry.res.ok
        THEN entry
        ELSE IF ~entry.res.val.has
        THEN Ret(entry.w, Ok(None))
        ELSE Bind({i \in 1..Len(entry.res.val.v.port_versions) :
                      entry.res.val.v.port_versions[i] = spec.version}, LAMBDA hits :
                 IF hits = {}
                 THEN Ret(entry.w, Ok(None))
                 ELSE Ret(entry.w,
                          Ok(Some([path |-> entry.res.val.v.version_paths[
                                                CHOOSE i \in hits : \A j \in hits : i <= j],
                                   location |-> <<>>])))))

\* the registry variants behind RegistryImplementation
RegistryVariants == GitRegs \cup {"builtin-files", "builtin-git", "filesystem"}

\* the virtual call RegistryImplementation::get_port
RegistryImplementation_get_port(w, impl, spec) ==
    IF impl \in GitRegs THEN GitRegistry_get_port(w, impl, spec)
    ELSE IF impl = "builtin-files" THEN BuiltinFilesRegistry_get_port(w, spec)
    ELSE IF impl = "builtin-git" THEN BuiltinGitRegistry_get_port(w, spec)
    ELSE FilesystemRegistry_get_port(w, spec)

\* ------------------------------------------------------------------------
\* State machine of the builtin and filesystem registries
\* ------------------------------------------------------------------------

\* a versions file lies in a versions directory; the builtin tree and the filesystem
\* registry do not look at each other, so one of them is left empty
BuiltinDisks ==
    {d \in Disks :
        /\ d.versions_dir = "absent" => d.versions = "missing"
        /\ \/ d.fs_versions = "missing"
           \/ [d EXCEPT !.fs_versions = "missing"] = EmptyDisk}

InitBuiltin ==
    /\ lockdata = <<>>
    /\ loadedLock = lockdata
    /\ modified = FALSE
    /\ git = [g \in GitRegs |-> GitRegistryInit]
    /\ baselineSource = "local"
    /\ gitObjects = {BaselineSha}
    /\ metrics = {}
    /\ crashed = FALSE
    /\ remote = [k \in Keys |-> "c2"]
    /\ treeStatus = [c \in Commits |-> "ok"]
    /\ badTrees \in {{}, {"t1"}}
    /\ overlays = <<>>
    /\ registry_set = DefaultOnly("g1")
    /\ m_overlay_cache = EmptyCache
    /\ NoProviders
    /\ NoManifest
    /\ NoFilesystem
    /\ m_scfs = EmptyCache
    /\ m_versions = EmptyCache
    /\ m_entries = EmptyCache
    /\ disk \in BuiltinDisks
    /\ get_port_results = EmptyCache
    /\ NoCheckout
    /\ fetchAttempts = [k \in Keys |-> 0]
    /\ fetchSuccesses = [k \in Keys |-> 0]
    /\ refreshAttempts = [k \in Keys |-> 0]
    /\ last = [op |-> "start", args |-> <<>>, res |-> Ok(None), calls |-> <<>>]

BuiltinFilesGetPort ==
    \E spec \in [port_name : Ports, version : Versions] :
        /\ ~crashed
        /\ Finish("BuiltinFilesRegistry::get_port", spec, BuiltinFilesRegistry_get_port(World, spec))
        /\ EnvUnchanged

BuiltinFilesAppendAllPortNames ==
    /\ ~crashed
    /\ Finish("BuiltinFilesRegistry::append_all_port_names", <<>>,
              BuiltinFilesRegistry_append_all_port_names(World, <<>>))
    /\ EnvUnchanged

BuiltinGitGetPort ==
    \E spec \in [port_name : Ports, version : Versions] :
        /\ ~crashed
        /\ Finish("BuiltinGitRegistry::get_port", spec, BuiltinGitRegistry_get_port(World, spec))
        /\ EnvUnchanged

BuiltinGitAppendAllPortNames ==
    /\ ~crashed
    /\ Finish("BuiltinGitRegistry::append_all_port_names", <<>>,
              BuiltinGitRegistry_append_all_port_names(World, <<>>))
    /\ EnvUnchanged

FilesystemGetPort ==
    \E spec \in [port_name : Ports, version : Versions] :
        /\ ~crashed
        /\ Finish("FilesystemRegistry::get_port", spec, FilesystemRegistry_get_port(World, spec))
        /\ EnvUnchanged

NextBuiltin ==
    \/ BuiltinFilesGetPort
    \/ BuiltinFilesAppendAllPortNames
    \/ BuiltinGitGetPort
    \/ BuiltinGitAppendAllPortNames
    \/ FilesystemGetPort

SpecBuiltin == InitBuiltin /\ [][NextBuiltin]_vars

\* C26: BuiltinFiles.get_port(name, version) returns the UnexpectedPortName error when the
\* recipe at <builtin-ports>/<name> declares another name; returns no port, after a
\* warning and without an error, when the recipe declares the name and another version;
\* and returns the port directory with the location
\* "git+https://github.com/Microsoft/vcpkg#ports/<name>" when name and version agree
C26_BuiltinFilesGetPort ==
    [][last'.op = "BuiltinFilesRegistry::get_port"
       => LET e == BuiltinPortAt(last'.args.port_name)
              warnings == {i \in 1..Len(last'.calls) : last'.calls[i][1] = "msg::println_warning"}
          IN  e.k = "port"
              => /\ e.name # last'.args.port_name
                    => /\ ~last'.res.ok
                       /\ last'.res.err[1] = "UnexpectedPortName"
                       /\ warnings = {}
                 /\ (e.name = last'.args.port_name /\ e.version # last'.args.version)
                    => /\ last'.res = Ok(None)
                       /\ warnings # {}
                 /\ (e.name = last'.args.port_name /\ e.version = last'.args.version)
                    => /\ last'.res =
                              Ok(Some([path |-> <<"ports", last'.args.port_name>>,
                                       location |->
                                           <<"git+https://github.com/Microsoft/vcpkg#ports/">>
                                           \o last'.args.port_name]))
                       /\ warnings = {}]_vars

\* the ports tree holds a at 2.0 and a is asked for at 1.0, a second time
C26_Witness ==
    /\ last.op = "BuiltinFilesRegistry::get_port"
    /\ last.args = [port_name |-> NameA, version |-> "1.0"]
    /\ disk.ports = [k |-> "port", name |-> NameA, version |-> "2.0"]
    /\ last.res = Ok(None)
    /\ Len(last.calls) = 1
    /\ last.calls[1][1] = "msg::println_warning"

\* the builtin version database lists the version for the port
BuiltinDbLists(spec) ==
    /\ VersionsFileAt("builtin", spec.port_name).kind = "ok"
    /\ \E i \in 1..Len(BuiltinVersionsFile) : BuiltinVersionsFile[i].version = spec.version

\* the git tree the builtin version database gives for the version
BuiltinDbTree(spec) ==
    BuiltinVersionsFile[CHOOSE i \in 1..Len(BuiltinVersionsFile) :
                            BuiltinVersionsFile[i].version = spec.version].git_tree

\* the port a checkout of the tree gives
CheckedOut(spec) ==
    Ok(Some([path |-> <<"git-trees", spec.port_name, BuiltinDbTree(spec)>>,
             location |-> <<"git+https://github.com/Microsoft/vcpkg@", BuiltinDbTree(spec)>>]))

\* C25 as stated: BuiltinGit.get_port answers what BuiltinFiles.get_port answers whenever
\* the version database, read without error, does not list the version for the port, and
\* the checked out tree with its location when it lists it and the checkout succeeds
C25_MissDelegates ==
    [][last'.op = "BuiltinGitRegistry::get_port"
       => /\ (BuiltinDbLists(last'.args) /\ BuiltinDbTree(last'.args) \notin badTrees)
             => last'.res = CheckedOut(last'.args)
          /\ (/\ ~BuiltinDbLists(last'.args)
              /\ VersionsFileAt("builtin", last'.args.port_name).kind # "malformed")
             => last'.res = BuiltinFilesRegistry_get_port(World, last'.args).res]_vars

\* C25, amended: BuiltinGit.get_port answers what BuiltinFiles.get_port answers when the
\* version database holds no file for the port; when the file is there and does not list
\* the version the result is the VersionGitEntryMissing error and the ports tree is not
\* consulted; when the file lists the version the tree is checked out and returned with
\* the location "git+https://github.com/Microsoft/vcpkg@<tree>", or the error of the
\* checkout is returned; a file that cannot be parsed is an error
C25_NoFileDelegates ==
    [][last'.op = "BuiltinGitRegistry::get_port"
       => LET file == VersionsFileAt("builtin", last'.args.port_name)
          IN  /\ file.kind = "missing"
                 => /\ last'.res = BuiltinFilesRegistry_get_port(World, last'.args).res
                    /\ m_scfs' = BuiltinFilesRegistry_get_port(World, last'.args).w.m_scfs
              /\ file.kind = "malformed" => ~last'.res.ok
              /\ (file.kind = "ok" /\ ~BuiltinDbLists(last'.args))
                 => /\ ~last'.res.ok
                    /\ last'.res.err[1] = "VersionGitEntryMissing"
                    /\ m_scfs' = m_scfs
              /\ (BuiltinDbLists(last'.args) /\ BuiltinDbTree(last'.args) \notin badTrees)
                 => /\ last'.res = CheckedOut(last'.args)
                    /\ last'.calls[Len(last'.calls)]
                           = <<"git_checkout_port", BuiltinDbTree(last'.args), "ok">>
              /\ (BuiltinDbLists(last'.args) /\ BuiltinDbTree(last'.args) \in badTrees)
                 => /\ ~last'.res.ok
                    /\ last'.res.err[1] = "GitCheckoutFailed"]_vars

\* the database lists a at 1.0 only, the ports tree holds a at 2.0, and a is asked at 2.0
C25_Witness ==
    /\ last.op = "BuiltinGitRegistry::get_port"
    /\ last.args = [port_name |-> NameA, version |-> "2.0"]
    /\ disk.versions = "ok"
    /\ disk.ports = [k |-> "port", name |-> NameA, version |-> "2.0"]
    /\ ~last.res.ok
    /\ last.res.err[1] = "VersionGitEntryMissing"

\* C27: when an external call made by an operation of a builtin or filesystem registry
\* fails, other than by finding no file or directory, the operation returns an error
C27_FailuresSurface ==
    [][\A i \in 1..Len(last'.calls) : last'.calls[i][3] = "error" => ~last'.res.ok]_vars

\* ------------------------------------------------------------------------
\* State machine of repeated get_port calls
\* ------------------------------------------------------------------------

\* the builtin tree holds a at 1.0, with or without a version database, and the
\* filesystem registry lists a at 1.0
RepeatDisks ==
    {[ports |-> [k |-> "port", name |-> NameA, version |-> "1.0"], ports_dir |-> "ok",
      versions |-> v, versions_dir |-> "ok", fs_versions |-> "ok",
      versions_file |-> [kind |-> "missing"]] : v \in {"missing", "ok"}}

\* the remote's head may lack a versions directory that the pinned commit has
InitRepeat ==
    /\ lockdata \in {<<>>, <<LoadedEntry(KeyMain)>>}
    /\ loadedLock = lockdata
    /\ modified = FALSE
    /\ git = [g \in GitRegs |-> GitRegistryInit]
    /\ baselineSource = "local"
    /\ gitObjects = {BaselineSha}
    /\ metrics = {}
    /\ crashed = FALSE
    /\ remote = [k \in Keys |-> "c2"]
    /\ treeStatus \in [Commits -> {"ok", "no_versions"}]
    /\ badTrees = {}
    /\ overlays = <<>>
    /\ registry_set = DefaultOnly("g1")
    /\ m_overlay_cache = EmptyCache
    /\ NoProviders
    /\ NoManifest
    /\ NoFilesystem
    /\ m_scfs = EmptyCache
    /\ m_versions = EmptyCache
    /\ m_entries = EmptyCache
    /\ disk \in RepeatDisks
    /\ get_port_results = EmptyCache
    /\ NoCheckout
    /\ fetchAttempts = [k \in Keys |-> 0]
    /\ fetchSuccesses = [k \in Keys |-> 0]
    /\ refreshAttempts = [k \in Keys |-> 0]
    /\ last = [op |-> "start", args |-> <<>>, res |-> Ok(None), calls |-> <<>>]

\* get_port on a registry of any variant; the result of the first call for (impl, spec)
\* is kept in get_port_results
RegistryGetPort ==
    \E impl \in RegistryVariants \ {"g2"}, spec \in VersionSpecs :
        /\ ~crashed
        /\ Finish("RegistryImplementation::get_port", <<impl, spec>>,
                  RegistryImplementation_get_port(World, impl, spec))
        /\ get_port_results' = Emplace(get_port_results, <<impl, spec>>, last'.res)
        /\ DiskUnchanged

NextRepeat ==
    \/ RegistryGetPort
    \/ GitGetAllPortVersions

SpecRepeat == InitRepeat /\ [][NextRepeat]_vars

\* C21: get_port(P, V) on a registry of any variant returns what the first get_port(P, V)
\* on that registry returned, whatever registry operations ran in between
C21_GetPortRepeats ==
    [][(/\ last'.op = "RegistryImplementation::get_port"
        /\ last'.args \in DOMAIN get_port_results)
       => last'.res = get_port_results[last'.args]]_vars

\* ------------------------------------------------------------------------
\* State machine of the per-port version database
\* ------------------------------------------------------------------------

\* the git trees and the paths an object of the "versions" array can name
GitTreeFields == {"t1", "t2"}
PathFields == {<<"$", "/", "f">>, <<"$", "/", "g">>, <<"f">>}

\* the objects of a "versions" array: with the locator field of the database's type, or
\* without it
VersionObjects(type) ==
    IF type = "Git"
    THEN {[version |-> v, git_tree |-> l] : v \in Versions, l \in GitTreeFields}
         \cup {[version |-> v] : v \in Versions}
    ELSE {[version |-> v, path |-> l] : v \in Versions, l \in PathFields}

\* what read_contents can find at the versions file of port a
VersionsFiles(type) ==
    {[kind |-> k] : k \in {"missing", "io_error", "malformed", "not_object", "no_versions_array"}}
    \cup {[kind |-> "ok", entries |-> arr] :
             arr \in UNION {[1..n -> VersionObjects(type)] : n \in 0..MaxEntries}}

\* the builtin tree with this versions file for port a, or the filesystem registry with it
VersionDbDisks ==
    {[EmptyDisk EXCEPT !.versions = "listed", !.versions_dir = "ok", !.versions_file = f] :
        f \in VersionsFiles("Git")}
    \cup {[EmptyDisk EXCEPT !.fs_versions = "listed", !.versions_file = f] :
             f \in VersionsFiles("Filesystem")}

\* the type of the database the disk holds
VersionDbTypeOf(d) == IF d.versions = "listed" THEN "Git" ELSE "Filesystem"

InitVersionDb ==
    /\ lockdata = <<>>
    /\ loadedLock = lockdata
    /\ modified = FALSE
    /\ git = [g \in GitRegs |-> GitRegistryInit]
    /\ baselineSource = "local"
    /\ gitObjects = {BaselineSha}
    /\ metrics = {}
    /\ crashed = FALSE
    /\ remote = [k \in Keys |-> "c2"]
    /\ treeStatus = [c \in Commits |-> "ok"]
    /\ badTrees = {}
    /\ overlays = <<>>
    /\ registry_set = DefaultOnly("g1")
    /\ m_overlay_cache = EmptyCache
    /\ NoProviders
    /\ NoManifest
    /\ NoFilesystem
    /\ m_scfs = EmptyCache
    /\ m_versions = EmptyCache
    /\ m_entries = EmptyCache
    /\ disk \in VersionDbDisks
    /\ get_port_results = EmptyCache
    /\ NoCheckout
    /\ fetchAttempts = [k \in Keys |-> 0]
    /\ fetchSuccesses = [k \in Keys |-> 0]
    /\ refreshAttempts = [k \in Keys |-> 0]
    /\ last = [op |-> "start", args |-> <<>>, res |-> Ok(None), calls |-> <<>>]

\* load_versions_file on the versions file of port a
LoadVersionsFile ==
    /\ ~crashed
    /\ Finish("load_versions_file", VersionDbTypeOf(disk),
              Ret(World, load_versions_file_contents(
                             VersionDbTypeOf(disk), disk.versions_file,
                             IF VersionDbTypeOf(disk) = "Git" THEN <<>> ELSE RegistryRoot)))
    /\ EnvUnchanged

VersionDbBuiltinGitGetPort ==
    /\ VersionDbTypeOf(disk) = "Git"
    /\ \E version \in Versions :
           /\ ~crashed
           /\ Finish("BuiltinGitRegistry::get_port", [port_name |-> NameA, version |-> version],
                     BuiltinGitRegistry_get_port(World, [port_name |-> NameA, version |-> version]))
           /\ EnvUnchanged

VersionDbFilesystemGetPort ==
    /\ VersionDbTypeOf(disk) = "Filesystem"
    /\ \E version \in Versions :
           /\ ~crashed
           /\ Finish("FilesystemRegistry::get_port", [port_name |-> NameA, version |-> version],
                     FilesystemRegistry_get_port(World, [port_name |-> NameA, version |-> version]))
           /\ EnvUnchanged

NextVersionDb ==
    \/ LoadVersionsFile
    \/ VersionDbBuiltinGitGetPort
    \/ VersionDbFilesystemGetPort

SpecVersionDb == InitVersionDb /\ [][NextVersionDb]_vars

\* the versions file of port a holds an array whose objects all pass the deserializer
ValidVersionsFile ==
    /\ disk.versions_file.kind = "ok"
    /\ \A i \in 1..Len(disk.versions_file.entries) :
           VersionDbEntryDeserializer_visit_object_of_type(
               VersionDbTypeOf(disk), RegistryRoot, disk.versions_file.entries[i]).errors = <<>>

\* the database entry that an object of the array stands for: its version, and its git
\* tree or the path below the registry root that follows "$/"
LocatorOf(obj) ==
    IF "git_tree" \in DOMAIN obj
    THEN [version |-> obj.version, git_tree |-> obj.git_tree]
    ELSE [version |-> obj.version,
          p |-> [base |-> RegistryRoot, rel |-> SubSeq(obj.path, 3, Len(obj.path))]]

\* the positions of the file's array that list the version
ListedAt(version) ==
    {i \in 1..Len(disk.versions_file.entries) : disk.versions_file.entries[i].version = version}

\* the first position of the file's array that lists the version
FirstListedAt(version) == CHOOSE i \in ListedAt(version) : \A j \in ListedAt(version) : i <= j

\* the two vectors of every cached version database have the length of the file's array
SameLengths ==
    /\ \A n \in DOMAIN m_versions :
           (m_versions[n].ok /\ m_versions[n].val.has)
           => /\ Len(m_versions[n].val.v.port_versions) = Len(m_versions[n].val.v.git_trees)
              /\ n = NameA => Len(m_versions[n].val.v.git_trees) = Len(disk.versions_file.entries)
    /\ \A n \in DOMAIN m_entries :
           (m_entries[n].ok /\ m_entries[n].val.has)
           => /\ Len(m_entries[n].val.v.port_versions) = Len(m_entries[n].val.v.version_paths)
              /\ n = NameA => Len(m_entries[n].val.v.version_paths) = Len(disk.versions_file.entries)

\* C31: looking a version up in a port's version database, by git tree (BuiltinGit) and
\* by path (Filesystem), returns the locator of the first object of the versions file, in
\* the file's order, whose version equals the requested one; a version the file does not
\* list is not found (no port from the filesystem registry, the VersionGitEntryMissing
\* error from the builtin one); and the versions vector and the locators vector of every
\* cached database have the same length.
C31_FirstMatchWins ==
    [][/\ SameLengths'
       /\ (/\ last'.op = "BuiltinGitRegistry::get_port"
           /\ ValidVersionsFile)
          => IF ListedAt(last'.args.version) = {}
             THEN /\ ~last'.res.ok
                  /\ last'.res.err[1] = "VersionGitEntryMissing"
             ELSE /\ last'.res.ok
                  /\ last'.res.val.has
                  /\ last'.res.val.v.path
                       = <<"git-trees", NameA,
                           disk.versions_file.entries[FirstListedAt(last'.args.version)].git_tree>>
       /\ (/\ last'.op = "FilesystemRegistry::get_port"
           /\ ValidVersionsFile)
          => /\ last'.res.ok
             /\ IF ListedAt(last'.args.version) = {}
                THEN ~last'.res.val.has
                ELSE /\ last'.res.val.has
                     /\ last'.res.val.v.path
                          = LocatorOf(disk.versions_file.entries[
                                          FirstListedAt(last'.args.version)]).p]_vars

\* the database lists version 1.0 twice with two git trees, and the lookup of 1.0
\* returned the first of them
C31_Witness ==
    /\ last.op = "BuiltinGitRegistry::get_port"
    /\ last.args.version = "1.0"
    /\ disk.versions_file.kind = "ok"
    /\ Len(disk.versions_file.entries) = 3
    /\ disk.versions_file.entries[1] = [version |-> "2.0", git_tree |-> "t1"]
    /\ disk.versions_file.entries[2] = [version |-> "1.0", git_tree |-> "t2"]
    /\ disk.versions_file.entries[3] = [version |-> "1.0", git_tree |-> "t1"]
    /\ last.res = Ok(Some([path |-> <<"git-trees", NameA, "t2">>,
                           location |-> <<"git+https://github.com/Microsoft/vcpkg@", "t2">>]))

\* C32: load_versions_file returns Ok(None) when the port's versions file does not exist;
\* returns an error for any other failure to read it, for contents that are not JSON, that
\* have no top-level object or no "versions" array, and for an array with an object the
\* deserializer rejects; and otherwise returns one entry per object of the array, in the
\* array's order.
C32_LoadVersionsFile ==
    [][(last'.op = "load_versions_file")
       => IF disk.versions_file.kind = "missing"
          THEN last'.res = Ok(None)
          ELSE IF ~ValidVersionsFile
          THEN ~last'.res.ok
          ELSE /\ last'.res.ok
               /\ last'.res.val.has
               /\ Len(last'.res.val.v) = Len(disk.versions_file.entries)
               /\ \A i \in 1..Len(disk.versions_file.entries) :
                      last'.res.val.v[i] = LocatorOf(disk.versions_file.entries[i])]_vars

\* a file with two valid objects was loaded into two entries
C32_Witness ==
    /\ last.op = "load_versions_file"
    /\ ValidVersionsFile
    /\ Len(disk.versions_file.entries) = 2
    /\ disk.versions_file.entries[1].version # disk.versions_file.entries[2].version
    /\ last.res.ok
    /\ Len(last.res.val.v) = 2

\* a file that could not be read for another reason than being absent gave an error
C32_WitnessReadError ==
    /\ last.op = "load_versions_file"
    /\ disk.versions_file.kind = "io_error"
    /\ ~last.res.ok

\* ------------------------------------------------------------------------
\* git_checkout_baseline, step by step, in concurrent processes
\* ------------------------------------------------------------------------

\* <baselines>/<sha>/baseline.json
baseline_destination == <<"baselines", BaselineSha, "baseline.json">>

\* the files that have a name or an open handle
Referenced(c) == ({c.tmp, c.dest} \cup {c.handle[p] : p \in Procs}) \ {0}

\* a file without name and handle is gone
Reclaim(c) ==
    [c EXCEPT !.contents = [i \in Inodes |-> IF i \in Referenced(c) THEN c.contents[i] ELSE "free"]]

\* the file a process gets when it opens a path that does not exist
FreshInode(c) == CHOOSE i \in Inodes : i \notin Referenced(c) /\ \A j \in Inodes \ Referenced(c) : i <= j

\* the process returns from git_checkout_baseline
Returned(c, p) == [c EXCEPT !.pc[p] = "returned", !.handle[p] = 0]

\* one step of a process: the files and positions after it, and what the step returned
CheckoutStep(op, p, c, res) ==
    /\ ~crashed
    /\ checkout' = Reclaim(c)
    /\ Finish(op, p, Ret(World, res))
    /\ OwnDiskUnchanged
    /\ UNCHANGED get_port_results

\* if (!fs.exists(destination, IgnoreErrors{}))
CheckoutExists ==
    \E p \in Procs :
        /\ checkout.pc[p] = "exists"
        /\ IF checkout.dest # 0
           THEN CheckoutStep("git_checkout_baseline", p,
                             [Returned(checkout, p) EXCEPT !.seen[p] = TRUE],
                             Ok(baseline_destination))
           ELSE CheckoutStep("exists", p,
                             [checkout EXCEPT !.pc[p] = "git_show", !.seen[p] = FALSE],
                             Ok(<<>>))

\* paths.git_show(treeish, paths.root / ".git")
CheckoutGitShow ==
    \E p \in Procs, ok \in BOOLEAN :
        /\ checkout.pc[p] = "git_show"
        /\ IF ok
           THEN CheckoutStep("git_show", p, [checkout EXCEPT !.pc[p] = "create_directories"],
                             Ok(<<>>))
           ELSE CheckoutStep("git_show", p, Returned(checkout, p),
                             Err(<<"BaselineGitShowFailed", BaselineSha>>))

\* fs.create_directories(destination_parent, ec)
CheckoutCreateDirectories ==
    \E p \in Procs, ok \in BOOLEAN :
        /\ checkout.pc[p] = "create_directories"
        /\ IF ok
           THEN CheckoutStep("create_directories", p,
                             [checkout EXCEPT !.pc[p] = "write_contents"], Ok(<<>>))
           ELSE CheckoutStep("create_directories", p, Returned(checkout, p),
                             Err(<<"FilesystemCall", "create_directories">>))

\* fs.write_contents(destination_tmp, *contents, ec), first half: the file is opened for
\* writing, which creates it or empties the one that is there
CheckoutOpenTmp ==
    \E p \in Procs, ok \in BOOLEAN :
        /\ checkout.pc[p] = "write_contents"
        /\ IF ~ok
           THEN CheckoutStep("write_contents", p, Returned(checkout, p),
                             Err(<<"FilesystemCall", "write_contents">>))
           ELSE IF checkout.tmp = 0
           THEN CheckoutStep("write_contents (open)", p,
                             [checkout EXCEPT !.pc[p] = "writing",
                                              !.tmp = FreshInode(checkout),
                                              !.handle[p] = FreshInode(checkout),
                                              !.contents[FreshInode(checkout)] = "partial"],
                             Ok(<<>>))
           ELSE CheckoutStep("write_contents (open)", p,
                             [checkout EXCEPT !.pc[p] = "writing",
                                              !.handle[p] = checkout.tmp,
                                              !.contents[checkout.tmp] = "partial"],
                             Ok(<<>>))

\* fs.write_contents, second half: the contents are written through the open handle and
\* the handle is closed; a write that fails leaves what it wrote so far
CheckoutWriteTmp ==
    \E p \in Procs, ok \in BOOLEAN :
        /\ checkout.pc[p] = "writing"
        /\ IF ok
           THEN CheckoutStep("write_contents", p,
                             [checkout EXCEPT !.pc[p] = "rename",
                                              !.contents[checkout.handle[p]] = "complete",
                                              !.handle[p] = 0],
                             Ok(<<>>))
           ELSE CheckoutStep("write_contents", p, Returned(checkout, p),
                             Err(<<"FilesystemCall", "write_contents">>))

\* fs.rename(destination_tmp, destination, ec): fails when the temporary file is gone
CheckoutRename ==
    \E p \in Procs, ok \in BOOLEAN :
        /\ checkout.pc[p] = "rename"
        /\ IF ok /\ checkout.tmp # 0
           THEN CheckoutStep("git_checkout_baseline", p,
                             [Returned(checkout, p) EXCEPT !.dest = checkout.tmp, !.tmp = 0],
                             Ok(baseline_destination))
           ELSE CheckoutStep("git_checkout_baseline", p, Returned(checkout, p),
                             Err(<<"FilesystemCall", "rename">>))

\* a later vcpkg process: m_baseline.get_lazy calls git_checkout_baseline once per process
CheckoutAgain ==
    \E p \in Procs :
        /\ checkout.pc[p] = "returned"
        /\ CheckoutStep("get_baseline_version", p, [checkout EXCEPT !.pc[p] = "exists"], Ok(<<>>))

InitCheckout ==
    /\ lockdata = <<>>
    /\ loadedLock = lockdata
    /\ modified = FALSE
    /\ git = [g \in GitRegs |-> GitRegistryInit]
    /\ baselineSource = "local"
    /\ gitObjects = {BaselineSha}
    /\ metrics = {}
    /\ crashed = FALSE
    /\ remote = [k \in Keys |-> "c2"]
    /\ treeStatus = [c \in Commits |-> "ok"]
    /\ badTrees = {}
    /\ overlays = <<>>
    /\ registry_set = DefaultOnly("g1")
    /\ m_overlay_cache = EmptyCache
    /\ NoProviders
    /\ NoManifest
    /\ NoFilesystem
    /\ NoBuiltin
    /\ fetchAttempts = [k \in Keys |-> 0]
    /\ fetchSuccesses = [k \in Keys |-> 0]
    /\ refreshAttempts = [k \in Keys |-> 0]
    /\ last = [op |-> "start", args |-> 0, res |-> Ok(<<>>), calls |-> <<>>]

NextCheckout ==
    \/ CheckoutExists
    \/ CheckoutGitShow
    \/ CheckoutCreateDirectories
    \/ CheckoutOpenTmp
    \/ CheckoutWriteTmp
    \/ CheckoutRename
    \/ CheckoutAgain

SpecCheckout == InitCheckout /\ [][NextCheckout]_vars

\* C33: <baselines>/<sha>/baseline.json is at every moment either absent or complete,
\* after a failure of any step and with processes that materialize the same sha at the
\* same time; and a process invokes git_show only when it found no such file.
C33_BaselineFileComplete ==
    /\ [](checkout.dest # 0 => checkout.contents[checkout.dest] = "complete")
    /\ [][last'.op = "git_show" => ~checkout'.seen[last'.args]]_vars

\* ------------------------------------------------------------------------
\* State machine of the versioned provider loading every registry port
\* ------------------------------------------------------------------------

\* the git trees the live version database of the default registry lists for a port
LiveTrees(name) ==
    IF remote[KeyOf(registry_set.default_registry_.v)] = Unreachable
    THEN {}
    ELSE Bind(VersionsFileAt(remote[KeyOf(registry_set.default_registry_.v)], name), LAMBDA file :
             IF file.kind = "ok"
             THEN {file.entries[i].git_tree : i \in 1..Len(file.entries)}
             ELSE {})

\* the recipes Paragraphs::load_all_registry_ports can load for a port: the one in the git
\* tree that the version database lists for the port's baseline version, whichever
\* version the baseline names
LoadableScfls(name) ==
    {RegistryScfl(RecipeAtTree(git_tree).name, RecipeAtTree(git_tree).version) :
        git_tree \in LiveTrees(name)}

\* what Paragraphs::load_all_registry_ports can return in the current state: for some of
\* the port names, one loadable recipe each, in the order of the names
LoadableRegistryPorts ==
    {l \in UNION {[1..n -> UNION {LoadableScfls(p) : p \in Ports}] : n \in 0..Cardinality(Ports)} :
        \A i \in 1..(Len(l) - 1) : StringLess(to_name(l[i]), to_name(l[i + 1]))}

VersionedLoadAllRegistryPorts ==
    \E all_ports \in LoadableRegistryPorts :
        /\ ~crashed
        /\ Finish("VersionedPortfileProviderImpl::load_all_control_files", all_ports,
                  VersionedPortfileProviderImpl_load_all_control_files(World, EmptyCache,
                                                                       all_ports))
        /\ EnvUnchanged

NextLoadAll ==
    \/ VersionedGetControlFile
    \/ VersionedLoadAllRegistryPorts

SpecLoadAll == InitVersioned /\ [][NextLoadAll]_vars

\* C35: load_all_control_files of the versioned provider never aborts the process: after
\* any get_control_file calls, those that cached a failed load included, every port it
\* loads is reported through a cache entry that holds a recipe, so that value_or_exit on
\* the cache entry does not fire.
C35_LoadAllNeverAborts ==
    [][(last'.op = "VersionedPortfileProviderImpl::load_all_control_files")
       => /\ ~crashed'
          /\ \A i \in 1..Len(last'.args) :
                 /\ CacheHas(m_control_cache', to_version_spec(last'.args[i]))
                 /\ m_control_cache'[to_version_spec(last'.args[i])].ok]_vars

====
